---- MODULE Spec2Model ----
(***************************************************************************)
(* Permanent storage engine of the node: the embedded (RocksDB) backend    *)
(* RocksPermanentStorage and the SQL backend PostgresPermanentStorage,     *)
(* with their optimistic conflict check at save_block, the fan-out of the  *)
(* embedded write batches, point-in-time reads and the block-number        *)
(* counter.                                                                *)
(***************************************************************************)
EXTENDS Integers, Sequences, FiniteSets, TLC

\* ------------------------------------------------------------------------
\* Bounds of the model
\* ------------------------------------------------------------------------
\* Highest nonce, balance and slot value.
MaxVal == 1
\* Highest block number a writer may submit.
MaxBlock == 2
\* Number of save_block calls made in one behaviour.
MaxSaves == 2
\* Number of block-number counter calls made in one behaviour.
MaxCounterCalls == 4

\* ------------------------------------------------------------------------
\* Primitive domains
\* ------------------------------------------------------------------------
Addr == {"a1", "a2"}
SlotIdx == {"s1"}
Val == 0..MaxVal
BlockNums == 1..MaxBlock
Heights == 0..MaxBlock
W == {"w1", "w2"}

\* Option<T>: None is the empty set, Some(v) the singleton {v}.
None == {}
Some(v) == {v}
IsSome(o) == o # {}
Unwrap(o) == CHOOSE v \in o : TRUE
Opt(S) == {None} \cup {Some(v) : v \in S}

\* ValueChange<T> { original, modified }
ValueChange == [original : Opt(Val), modified : Opt(Val)]
Untouched == [original |-> None, modified |-> None]
take_original_ref(vc) == vc.original
take_modified(vc) == vc.modified
\* "A change is modified iff modified.is_some() && modified != original"
is_modified(vc) == IsSome(vc.modified) /\ vc.modified # vc.original

\* BlockNumber::hash(): the hash of a block is a function of its number alone
\* for the blocks built here; hashes are kept opaque.
HashOf(n) == <<"h", n>>
TxHashOf(n) == <<"tx", n>>
Hashes == {HashOf(n) : n \in BlockNums}
TxHashes == {TxHashOf(n) : n \in Heights}
LogIdx == {0}

\* ------------------------------------------------------------------------
\* Accounts, changes, transactions and blocks
\* ------------------------------------------------------------------------
\* Bytecode, and CodeHash: the hash of the bytecode, or the hash of no code.
Bytecodes == {"c1"}
CodeHashOf(bytecode) == IF bytecode = None THEN "keccak_empty" ELSE "keccak_" \o Unwrap(bytecode)
CodeHashes == {CodeHashOf(b) : b \in {None} \cup {Some(c) : c \in Bytecodes}}
\* AccountInfo { balance, nonce, bytecode, code_hash } as kept in the latest
\* and history tables.
AccountInfo == [nonce : Val, balance : Val,
                bytecode : {None} \cup {Some(c) : c \in Bytecodes}, code_hash : CodeHashes]
\* Account { address, nonce, balance, bytecode, code_hash } as given to
\* save_accounts: the code hash is the hash of the bytecode.
Accounts ==
    {a \in [address : Addr, nonce : Val, balance : Val,
            bytecode : {None} \cup {Some(c) : c \in Bytecodes}, code_hash : CodeHashes] :
        a.code_hash = CodeHashOf(a.bytecode)}

ReadOnly(v) == [original |-> Some(v), modified |-> None]
NoSlots == [i \in SlotIdx |-> None]

\* ExecutionAccountChanges { address, nonce, balance, slots }.  "original ==
\* None means the account/slot did not exist before the transaction": the nonce
\* and the balance of an account carry their originals together.
\* "a1" is an externally-owned account.  Credit: its first balance is set, with
\* no original.  Debit: its balance o is spent, the nonce read.  Bump: its
\* nonce o is incremented, the balance read.
Credit(m) ==
    [address |-> "a1", nonce |-> Untouched,
     balance |-> [original |-> None, modified |-> Some(m)], slots |-> NoSlots]
Debit(o) ==
    [address |-> "a1", nonce |-> ReadOnly(0),
     balance |-> [original |-> Some(o), modified |-> Some(0)], slots |-> NoSlots]
Bump(o) ==
    [address |-> "a1", nonce |-> [original |-> Some(o), modified |-> Some(o + 1)],
     balance |-> ReadOnly(MaxVal), slots |-> NoSlots]
\* The values written and carried are the default value and the largest one.
EoaChanges ==
    {Credit(m) : m \in {0, MaxVal}} \cup {Debit(MaxVal), Bump(0)}
\* "a2" is a contract whose nonce and balance stay 0.  Store: a slot is written
\* for the first time, with no original.  Overwrite: a slot holding o is
\* written, the account read.
Store(m) ==
    [address |-> "a2", nonce |-> Untouched, balance |-> Untouched,
     slots |-> [i \in SlotIdx |-> Some([original |-> None, modified |-> Some(m)])]]
Overwrite(o) ==
    [address |-> "a2", nonce |-> ReadOnly(0), balance |-> ReadOnly(0),
     slots |-> [i \in SlotIdx |->
                  Some([original |-> Some(o), modified |-> Some((o + 1) % (MaxVal + 1))])]]
ContractChanges == {Store(m) : m \in {0, MaxVal}} \cup {Overwrite(o) : o \in {0, MaxVal}}
Changes == EoaChanges \cup ContractChanges

TouchesSlots(change) == \E i \in SlotIdx : IsSome(change.slots[i])

\* A block of one mined transaction carrying one account change; a
\* transaction that writes contract storage emits one log.
MkTx(n, change) ==
    [hash |-> TxHashOf(n),
     block_number |-> n,
     logs |-> IF TouchesSlots(change) THEN <<0>> ELSE << >>,
     changes |-> <<change>>]
MkBlock(n, change) ==
    [number |-> n, hash |-> HashOf(n), transactions |-> <<MkTx(n, change)>>]
BlockInputs == {MkBlock(n, c) : n \in BlockNums, c \in Changes}

\* The variant of block_without_changes that stores the clone as it is.
block_with_changes(block) == block
\* let mut block_without_changes = block.clone(); changes = vec![] in every transaction
block_without_changes(block) ==
    [block EXCEPT !.transactions =
        [t \in DOMAIN block.transactions |-> [block.transactions[t] EXCEPT !.changes = << >>]]]

\* Block::compact_account_changes(): the changes of the block's transactions,
\* in transaction order, merged per address (first original, last modified).
MergeVC(old, new) ==
    [original |-> old.original,
     modified |-> IF IsSome(new.modified) THEN new.modified ELSE old.modified]
MergeChange(old, new) ==
    [address |-> old.address,
     nonce |-> MergeVC(old.nonce, new.nonce),
     balance |-> MergeVC(old.balance, new.balance),
     slots |-> [i \in SlotIdx |->
                  IF old.slots[i] = None THEN new.slots[i]
                  ELSE IF new.slots[i] = None THEN old.slots[i]
                  ELSE Some(MergeVC(Unwrap(old.slots[i]), Unwrap(new.slots[i])))]]
RECURSIVE Compact(_, _)
Compact(done, rest) ==
    IF rest = << >> THEN done
    ELSE LET c == Head(rest)
             at == {k \in DOMAIN done : done[k].address = c.address}
         IN IF at = {}
            THEN Compact(Append(done, c), Tail(rest))
            ELSE LET k == CHOOSE k \in at : TRUE
                 IN Compact([done EXCEPT ![k] = MergeChange(done[k], c)], Tail(rest))
RECURSIVE AllChanges(_)
AllChanges(txs) ==
    IF txs = << >> THEN << >> ELSE Head(txs).changes \o AllChanges(Tail(txs))
compact_account_changes(block) == Compact(<< >>, AllChanges(block.transactions))

\* ------------------------------------------------------------------------
\* State
\* ------------------------------------------------------------------------
VARIABLES
    backend,       \* the PermanentStorage implementation in use: "rocks" or "postgres"
    state,         \* RocksPermanentStorage.state: the tables of RocksStorageState
    block_number,  \* RocksPermanentStorage.block_number: AtomicU64
    pending,       \* per writer, the write batches of its save_block not yet executed
    failed,        \* per writer, the write batches of its save_block that failed
    cur,           \* per writer, the index in calls of its save_block in progress, or 0
    calls,         \* the save_block calls made so far, with their results
    seeded,        \* the accounts given to save_accounts so far
    pg,            \* the tables of the SQL database
    issued,        \* the block number calls made so far, with their results
    dag,           \* TransactionDag.dag: the transactions left and their edges
    waves,         \* the results of the take_roots calls made so far
    importer,      \* the online importer: its position, its number and what it did so far
    headers,       \* a block header, its upstream form and the header read back from it
    process        \* the shutdown signal, the relayer loop and the tasks joined by run

vars == <<backend, state, block_number, pending, failed, cur, calls, seeded, pg, issued, dag, waves,
          importer, headers, process>>

\* A TransactionDag of no transaction.
EmptyDag == [txs |-> {}, nodes |-> {}, edges |-> {}]

\* The importer before main runs, and no header built yet.
IdleImporter ==
    [pc |-> "main", start |-> 0, number |-> 0, requests |-> << >>, imported |-> << >>,
     result |-> "Running", receipts |-> << >>, receipt_requests |-> 0,
     last_receipt |-> {}, sleeps |-> 0]
\* A process whose shutdown signal is not set, whose relayer has not entered
\* its loop and whose joined tasks are running.
IdleProcess ==
    [shutdown |-> FALSE,
     relayer |-> [pc |-> "loop", calls |-> << >>, result |-> "Running"],
     rpc_task |-> "Running", importer_task |-> "Running", run |-> "Running"]
NoHeaders == [origin |-> "none", header |-> None, ethers |-> None, restored |-> None]

\* The tables of RocksStorageState, all empty.
EmptyState ==
    [accounts |-> [a \in Addr |-> None],
     account_slots |-> [k \in Addr \X SlotIdx |-> None],
     accounts_history |-> [k \in Addr \X Heights |-> None],
     account_slots_history |-> [k \in Addr \X SlotIdx \X Heights |-> None],
     transactions |-> [h \in TxHashes |-> None],
     logs |-> [k \in TxHashes \X LogIdx |-> None],
     blocks_by_number |-> [n \in BlockNums |-> None],
     blocks_by_hash |-> [h \in Hashes |-> None]]

\* ------------------------------------------------------------------------
\* Embedded backend: conflict check
\* ------------------------------------------------------------------------
Conflict(kind, address, slot, stored, original) ==
    [kind |-> kind, address |-> address, slot |-> slot, stored |-> stored, original |-> original]

\* The body of the loop of check_conflicts for one change: nothing is compared
\* unless the latest accounts hold the address, and a slot is compared only when
\* the latest slots hold it and its change carries an original.
SlotConflicts(st, change) ==
    LET address == change.address
    IN {Conflict("Slot", address, i, Unwrap(st.account_slots[<<address, i>>]),
                 Unwrap(take_original_ref(Unwrap(change.slots[i])))) : i \in
          {j \in SlotIdx :
              /\ IsSome(change.slots[j])
              /\ IsSome(st.account_slots[<<address, j>>])
              /\ IsSome(take_original_ref(Unwrap(change.slots[j])))
              /\ Unwrap(take_original_ref(Unwrap(change.slots[j])))
                   # Unwrap(st.account_slots[<<address, j>>])}}
\* The variant of the loop body that compares the originals of an address
\* without a latest row with the values of an empty account.
ConflictsOfChangeDefaulting(st, change) ==
    LET address == change.address
        account == IF IsSome(st.accounts[address]) THEN Unwrap(st.accounts[address])
                   ELSE [nonce |-> 0, balance |-> 0]
        original_nonce == take_original_ref(change.nonce)
        original_balance == take_original_ref(change.balance)
    IN  (IF IsSome(original_nonce) /\ Unwrap(original_nonce) # account.nonce
         THEN {Conflict("Nonce", address, "-", account.nonce, Unwrap(original_nonce))}
         ELSE {})
        \cup
        (IF IsSome(original_balance) /\ Unwrap(original_balance) # account.balance
         THEN {Conflict("Balance", address, "-", account.balance, Unwrap(original_balance))}
         ELSE {})
        \cup
        SlotConflicts(st, change)

ConflictsOfChange(st, change) ==
    LET address == change.address
    IN IF IsSome(st.accounts[address])
       THEN LET account == Unwrap(st.accounts[address])
                original_nonce == take_original_ref(change.nonce)
                original_balance == take_original_ref(change.balance)
            IN  (IF IsSome(original_nonce) /\ Unwrap(original_nonce) # account.nonce
                 THEN {Conflict("Nonce", address, "-", account.nonce, Unwrap(original_nonce))}
                 ELSE {})
                \cup
                (IF IsSome(original_balance) /\ Unwrap(original_balance) # account.balance
                 THEN {Conflict("Balance", address, "-", account.balance, Unwrap(original_balance))}
                 ELSE {})
                \cup
                SlotConflicts(st, change)
       ELSE {}

\* The variant of check_conflicts that compares nothing: the faulty check
\* under which a resubmitted block would be written again.
check_conflicts_skipped(st, account_changes) == None

\* RocksPermanentStorage::check_conflicts: None, or Some(the conflicts collected).
check_conflicts(st, account_changes) ==
    LET conflicts == UNION {ConflictsOfChange(st, account_changes[k]) : k \in DOMAIN account_changes}
    IN IF conflicts = {} THEN None ELSE Some(conflicts)

\* ------------------------------------------------------------------------
\* Embedded backend: the write batches of save_block
\* ------------------------------------------------------------------------
\* One batch per table written.  The first four are spawned by save_block
\* itself, the other four by update_state_with_execution_changes; the history
\* of balances and nonces is carried by the rows of accounts_history.
Batches == {"transactions", "logs", "blocks_by_number", "blocks_by_hash",
            "accounts", "account_slots", "accounts_history", "account_slots_history"}

\* txs_batch: (transaction.input.hash, transaction.block_number) per transaction
txs_batch(block) ==
    {<<block.transactions[t].hash, block.transactions[t].block_number>> : t \in DOMAIN block.transactions}
\* logs_batch: ((transaction.input.hash, log.log_index), transaction.block_number) per log
logs_batch(block) ==
    UNION {{<<block.transactions[t].hash, block.transactions[t].logs[l], block.transactions[t].block_number>> :
               l \in DOMAIN block.transactions[t].logs} : t \in DOMAIN block.transactions}

\* The account row a change leaves: the latest row of the address (a zeroed row
\* when there is none) with the modified nonce and balance put in.
AccountAfter(st, change) ==
    LET entry == IF IsSome(st.accounts[change.address])
                 THEN Unwrap(st.accounts[change.address])
                 ELSE [nonce |-> 0, balance |-> 0, bytecode |-> None, code_hash |-> CodeHashOf(None)]
    IN [bytecode |-> entry.bytecode, code_hash |-> entry.code_hash,
        nonce |-> IF IsSome(take_modified(change.nonce)) THEN Unwrap(take_modified(change.nonce)) ELSE entry.nonce,
        balance |-> IF IsSome(take_modified(change.balance)) THEN Unwrap(take_modified(change.balance)) ELSE entry.balance]

ChangeOf(account_changes, a) ==
    account_changes[CHOOSE k \in DOMAIN account_changes : account_changes[k].address = a]
Touched(account_changes) == {account_changes[k].address : k \in DOMAIN account_changes}
\* The slots a batch writes: those whose change carries a modified value.
SlotWritten(account_changes, a, i) ==
    /\ a \in Touched(account_changes)
    /\ IsSome(ChangeOf(account_changes, a).slots[i])
    /\ IsSome(take_modified(Unwrap(ChangeOf(account_changes, a).slots[i])))
SlotValueWritten(account_changes, a, i) ==
    Unwrap(take_modified(Unwrap(ChangeOf(account_changes, a).slots[i])))

\* RocksStorageState::update_state_with_execution_changes(changes, number), one
\* table at a time.
update_accounts(st, account_changes) ==
    [st EXCEPT !.accounts =
        [a \in Addr |-> IF a \in Touched(account_changes)
                        THEN Some(AccountAfter(st, ChangeOf(account_changes, a)))
                        ELSE st.accounts[a]]]
update_accounts_history(st, account_changes, number) ==
    [st EXCEPT !.accounts_history =
        [k \in Addr \X Heights |->
            IF k[1] \in Touched(account_changes) /\ k[2] = number
            THEN Some(AccountAfter(st, ChangeOf(account_changes, k[1])))
            ELSE st.accounts_history[k]]]
update_account_slots(st, account_changes) ==
    [st EXCEPT !.account_slots =
        [k \in Addr \X SlotIdx |->
            IF SlotWritten(account_changes, k[1], k[2])
            THEN Some(SlotValueWritten(account_changes, k[1], k[2]))
            ELSE st.account_slots[k]]]
update_account_slots_history(st, account_changes, number) ==
    [st EXCEPT !.account_slots_history =
        [k \in Addr \X SlotIdx \X Heights |->
            IF SlotWritten(account_changes, k[1], k[2]) /\ k[3] = number
            THEN Some(SlotValueWritten(account_changes, k[1], k[2]))
            ELSE st.account_slots_history[k]]]

\* The effect of one write batch of save_block(block).
ApplyBatch(st, b, block) ==
    LET account_changes == compact_account_changes(block)
        number == block.number
    IN CASE b = "transactions" ->
              [st EXCEPT !.transactions =
                  [h \in TxHashes |-> IF \E e \in txs_batch(block) : e[1] = h
                                      THEN Some((CHOOSE e \in txs_batch(block) : e[1] = h)[2])
                                      ELSE st.transactions[h]]]
         [] b = "logs" ->
              [st EXCEPT !.logs =
                  [k \in TxHashes \X LogIdx |->
                      IF \E e \in logs_batch(block) : <<e[1], e[2]>> = k
                      THEN Some((CHOOSE e \in logs_batch(block) : <<e[1], e[2]>> = k)[3])
                      ELSE st.logs[k]]]
         [] b = "blocks_by_number" ->
              [st EXCEPT !.blocks_by_number[number] = Some(block_without_changes(block))]
         [] b = "blocks_by_hash" ->
              [st EXCEPT !.blocks_by_hash[block.hash] = Some(number)]
         [] b = "accounts" -> update_accounts(st, account_changes)
         [] b = "accounts_history" -> update_accounts_history(st, account_changes, number)
         [] b = "account_slots" -> update_account_slots(st, account_changes)
         [] b = "account_slots_history" -> update_account_slots_history(st, account_changes, number)

\* The batches of save_block(block) that write at least one row; a batch with
\* no row changes nothing and is not tracked.
Fanout(block) ==
    LET account_changes == compact_account_changes(block)
        slots == \E a \in Addr, i \in SlotIdx : SlotWritten(account_changes, a, i)
    IN {b \in Batches :
          CASE b = "transactions" -> txs_batch(block) # {}
            [] b = "logs" -> logs_batch(block) # {}
            [] b \in {"blocks_by_number", "blocks_by_hash"} -> TRUE
            [] b \in {"accounts", "accounts_history"} -> account_changes # << >>
            [] b \in {"account_slots", "account_slots_history"} -> slots}

\* ------------------------------------------------------------------------
\* Embedded backend: point-in-time reads
\* ------------------------------------------------------------------------
\* StoragePointInTime
Present == <<"Present">>
Past(n) == <<"Past", n>>
PointsInTime == {Present} \cup {Past(n) : n \in Heights}

Max(S) == CHOOSE x \in S : \A y \in S : y <= x

\* RocksStorageState::read_account: the latest row at Present, else the history
\* row of the address with the largest block number <= n.
read_account(st, address, point_in_time) ==
    IF point_in_time = Present
    THEN st.accounts[address]
    ELSE LET rows == {h \in Heights : h <= point_in_time[2] /\ IsSome(st.accounts_history[<<address, h>>])}
         IN IF rows = {} THEN None ELSE st.accounts_history[<<address, Max(rows)>>]

\* RocksStorageState::read_slot
read_slot(st, address, slot_index, point_in_time) ==
    IF point_in_time = Present
    THEN st.account_slots[<<address, slot_index>>]
    ELSE LET rows == {h \in Heights : h <= point_in_time[2]
                                      /\ IsSome(st.account_slots_history[<<address, slot_index, h>>])}
         IN IF rows = {} THEN None ELSE st.account_slots_history[<<address, slot_index, Max(rows)>>]

\* RocksStorageState::read_block by number and by hash
read_block_by_number(st, n) == st.blocks_by_number[n]
read_block_by_hash(st, h) ==
    IF IsSome(st.blocks_by_hash[h]) THEN st.blocks_by_number[Unwrap(st.blocks_by_hash[h])] ELSE None

\* ------------------------------------------------------------------------
\* Embedded backend: operations
\* ------------------------------------------------------------------------
Call(w, block, result, conflicts) ==
    [writer |-> w, block |-> block, result |-> result, conflicts |-> conflicts]

\* The order in which the batches are listed; they write different tables.
BatchOrder == <<"transactions", "logs", "blocks_by_number", "blocks_by_hash",
                "accounts", "account_slots", "accounts_history", "account_slots_history">>
RECURSIVE ApplyBatches(_, _, _, _)
ApplyBatches(st, order, batches, block) ==
    IF order = << >> THEN st
    ELSE ApplyBatches(IF Head(order) \in batches THEN ApplyBatch(st, Head(order), block) ELSE st,
                      Tail(order), batches, block)

\* save_block as one call of a single writer: the conflicts are collected
\* before any write; with a conflict the call returns Err(Conflict), else every
\* batch is written and the call returns Ok.
save_block(st, block) ==
    LET account_changes == compact_account_changes(block)
        conflicts == check_conflicts(st, account_changes)
    IN IF IsSome(conflicts)
       THEN [result |-> "Conflict", conflicts |-> Unwrap(conflicts), state |-> st]
       ELSE [result |-> "Ok", conflicts |-> {},
             state |-> ApplyBatches(st, BatchOrder, Fanout(block), block)]
SaveBlock(w, block) ==
    /\ backend = "rocks"
    /\ cur[w] = 0
    /\ Len(calls) < MaxSaves
    /\ \E saved \in {save_block(state, block)} :
          /\ calls' = Append(calls, Call(w, block, saved.result, saved.conflicts))
          /\ state' = saved.state
    /\ UNCHANGED <<process, importer, headers, dag, waves, backend, block_number, pending, failed, cur, seeded, pg, issued>>

\* save_block up to the fan-out, for writers that run concurrently: the
\* conflicts are collected, and without a conflict the batches are spawned.
SaveBlockBegin(w, block) ==
    /\ backend = "rocks"
    /\ cur[w] = 0
    /\ Len(calls) < MaxSaves
    /\ LET account_changes == compact_account_changes(block)
           conflicts == check_conflicts(state, account_changes)
       IN IF IsSome(conflicts)
          THEN /\ calls' = Append(calls, Call(w, block, "Conflict", Unwrap(conflicts)))
               /\ UNCHANGED <<state, pending, failed, cur>>
          ELSE /\ calls' = Append(calls, Call(w, block, "Pending", {}))
               /\ cur' = [cur EXCEPT ![w] = Len(calls) + 1]
               /\ pending' = [pending EXCEPT ![w] = Fanout(block)]
               /\ failed' = [failed EXCEPT ![w] = {}]
               /\ UNCHANGED state
    /\ UNCHANGED <<process, importer, headers, dag, waves, backend, block_number, seeded, pg, issued>>

\* One spawned write batch runs on the blocking pool.
RunBatch(w, b) ==
    /\ cur[w] # 0
    /\ b \in pending[w]
    /\ state' = ApplyBatch(state, b, calls[cur[w]].block)
    /\ pending' = [pending EXCEPT ![w] = @ \ {b}]
    /\ UNCHANGED <<process, importer, headers, dag, waves, backend, block_number, failed, cur, calls, seeded, pg, issued>>

\* One spawned write batch fails: its insert errs or its task panics.
FailBatch(w, b) ==
    /\ cur[w] # 0
    /\ b \in pending[w]
    /\ pending' = [pending EXCEPT ![w] = @ \ {b}]
    /\ failed' = [failed EXCEPT ![w] = @ \cup {b}]
    /\ UNCHANGED <<process, importer, headers, dag, waves, backend, state, block_number, cur, calls, seeded, pg, issued>>

\* join_all(futures).await; Ok(()): the outcomes of the joined tasks are dropped.
SaveBlockEnd(w) ==
    /\ cur[w] # 0
    /\ pending[w] = {}
    /\ calls' = [calls EXCEPT ![cur[w]].result = "Ok"]
    /\ cur' = [cur EXCEPT ![w] = 0]
    /\ UNCHANGED <<process, importer, headers, dag, waves, backend, state, block_number, pending, failed, seeded, pg, issued>>

\* The variant of the loop of save_accounts that leaves the history out: the
\* faulty seeding under which Past(n) reads miss the genesis accounts.
RECURSIVE InsertAccountsLatestOnly(_, _)
InsertAccountsLatestOnly(st, accounts) ==
    IF accounts = << >> THEN st
    ELSE LET account == Head(accounts)
             info == [nonce |-> account.nonce, balance |-> account.balance,
                      bytecode |-> account.bytecode, code_hash |-> account.code_hash]
         IN InsertAccountsLatestOnly([st EXCEPT !.accounts[account.address] = Some(info)],
                                     Tail(accounts))

\* save_accounts: each account goes to the latest accounts and to the history
\* at block 0.
RECURSIVE InsertAccounts(_, _)
InsertAccounts(st, accounts) ==
    IF accounts = << >> THEN st
    ELSE LET account == Head(accounts)
             info == [nonce |-> account.nonce, balance |-> account.balance,
                      bytecode |-> account.bytecode, code_hash |-> account.code_hash]
         IN InsertAccounts([st EXCEPT !.accounts[account.address] = Some(info),
                                      !.accounts_history[<<account.address, 0>>] = Some(info)],
                           Tail(accounts))
\* The genesis accounts are saved once, before any block; the genesis of the
\* model holds the externally-owned account, with nonce 0 and any balance.
SeedInputs ==
    {<<account>> : account \in {a \in Accounts : a.address = "a1" /\ a.nonce = 0 /\ a.bytecode = None}}
SaveAccounts(accounts) ==
    /\ backend = "rocks"
    /\ seeded = << >>
    /\ calls = << >>
    /\ state' = InsertAccounts(state, accounts)
    /\ seeded' = accounts
    /\ UNCHANGED <<process, importer, headers, dag, waves, backend, block_number, pending, failed, cur, calls, pg, issued>>

\* ------------------------------------------------------------------------
\* SQL backend
\* ------------------------------------------------------------------------
\* The tables of the database, all empty.
EmptyPg ==
    [accounts |-> [a \in Addr |-> None],
     account_slots |-> [k \in Addr \X SlotIdx |-> None],
     historical_nonces |-> [k \in Addr \X Heights |-> None],
     historical_balances |-> [k \in Addr \X Heights |-> None],
     historical_slots |-> [k \in Addr \X SlotIdx \X Heights |-> None],
     blocks |-> [n \in Heights |-> None],
     transactions |-> [h \in TxHashes |-> None],
     logs |-> [k \in TxHashes \X LogIdx |-> None]]

unwrap_or_default(o) == IF IsSome(o) THEN Unwrap(o) ELSE 0
unwrap_or(o, d) == IF IsSome(o) THEN Unwrap(o) ELSE d

\* account_batch.push(address, new_nonce.unwrap_or(original_nonce),
\*     new_balance.unwrap_or(original_balance), .., original_nonce, original_balance)
\* with the originals unwrap_or_default()ed.
account_batch(account_changes) ==
    [k \in DOMAIN account_changes |->
        LET change == account_changes[k]
            original_nonce == unwrap_or_default(change.nonce.original)
            original_balance == unwrap_or_default(change.balance.original)
        IN [address |-> change.address,
            new_nonce |-> unwrap_or(change.nonce.modified, original_nonce),
            new_balance |-> unwrap_or(change.balance.modified, original_balance),
            original_nonce |-> original_nonce,
            original_balance |-> original_balance]]
\* if let Some(balance) = new_balance { historical_balance_batch.push(..) }
historical_balance_batch(account_changes) ==
    {[address |-> account_changes[k].address, balance |-> Unwrap(account_changes[k].balance.modified)] :
        k \in {j \in DOMAIN account_changes : IsSome(account_changes[j].balance.modified)}}
\* if let Some(nonce) = new_nonce { historical_nonce_batch.push(..) }
historical_nonce_batch(account_changes) ==
    {[address |-> account_changes[k].address, nonce |-> Unwrap(account_changes[k].nonce.modified)] :
        k \in {j \in DOMAIN account_changes : IsSome(account_changes[j].nonce.modified)}}
\* slot_batch.push(address, slot_idx, new_value, number, original_value): a slot
\* with no modified value is skipped, an unset original becomes the default.
slot_batch(account_changes) ==
    {[address |-> account_changes[k].address, index |-> i,
      value |-> Unwrap(Unwrap(account_changes[k].slots[i]).modified),
      original_value |-> unwrap_or_default(Unwrap(account_changes[k].slots[i]).original)] :
        <<k, i>> \in {p \in (DOMAIN account_changes) \X SlotIdx :
                        /\ IsSome(account_changes[p[1]].slots[p[2]])
                        /\ IsSome(Unwrap(account_changes[p[1]].slots[p[2]]).modified)}}

\* insert_entire_block.sql: the block, its transactions and its logs are
\* inserted, the history rows are inserted, and an account or slot row is
\* inserted when there is none, or updated when its stored values are the
\* originals given; modified_accounts and modified_slots count the rows
\* inserted or updated.
AccountRowModified(db, row) ==
    \/ db.accounts[row.address] = None
    \/ /\ Unwrap(db.accounts[row.address]).latest_nonce = row.original_nonce
       /\ Unwrap(db.accounts[row.address]).latest_balance = row.original_balance
SlotRowModified(db, row) ==
    \/ db.account_slots[<<row.address, row.index>>] = None
    \/ Unwrap(db.account_slots[<<row.address, row.index>>]) = row.original_value
insert_entire_block(db, block, accounts_rows, slots_rows, balances, nonces) ==
    LET number == block.number
        acc == {k \in DOMAIN accounts_rows : AccountRowModified(db, accounts_rows[k])}
        slo == {r \in slots_rows : SlotRowModified(db, r)}
    IN [modified_accounts |-> Cardinality(acc),
        modified_slots |-> Cardinality(slo),
        db |->
          [accounts |-> [a \in Addr |->
               IF \E k \in acc : accounts_rows[k].address = a
               THEN LET row == accounts_rows[CHOOSE k \in acc : accounts_rows[k].address = a]
                    IN Some([latest_nonce |-> row.new_nonce, latest_balance |-> row.new_balance,
                             bytecode |-> IF IsSome(db.accounts[a])
                                          THEN Unwrap(db.accounts[a]).bytecode
                                          ELSE None,
                             creation_block |-> IF IsSome(db.accounts[a])
                                                THEN Unwrap(db.accounts[a]).creation_block
                                                ELSE number])
               ELSE db.accounts[a]],
           account_slots |-> [k \in Addr \X SlotIdx |->
               IF \E r \in slo : <<r.address, r.index>> = k
               THEN Some((CHOOSE r \in slo : <<r.address, r.index>> = k).value)
               ELSE db.account_slots[k]],
           historical_nonces |-> [k \in Addr \X Heights |->
               IF \E r \in nonces : r.address = k[1] /\ k[2] = number
               THEN Some((CHOOSE r \in nonces : r.address = k[1]).nonce)
               ELSE db.historical_nonces[k]],
           historical_balances |-> [k \in Addr \X Heights |->
               IF \E r \in balances : r.address = k[1] /\ k[2] = number
               THEN Some((CHOOSE r \in balances : r.address = k[1]).balance)
               ELSE db.historical_balances[k]],
           historical_slots |-> [k \in Addr \X SlotIdx \X Heights |->
               IF \E r \in slots_rows : r.address = k[1] /\ r.index = k[2] /\ k[3] = number
               THEN Some((CHOOSE r \in slots_rows : r.address = k[1] /\ r.index = k[2]).value)
               ELSE db.historical_slots[k]],
           blocks |-> [db.blocks EXCEPT ![number] = Some(block.hash)],
           transactions |-> [h \in TxHashes |->
               IF \E e \in txs_batch(block) : e[1] = h THEN Some(number) ELSE db.transactions[h]],
           logs |-> [k \in TxHashes \X LogIdx |->
               IF \E e \in logs_batch(block) : <<e[1], e[2]>> = k THEN Some(number) ELSE db.logs[k]]]]

\* The variant of save_block that commits whatever the counts are: the
\* faulty implementation that C3 excludes.
PgSaveBlockNoRollback(w, block) ==
    /\ backend = "postgres"
    /\ Len(calls) < MaxSaves
    /\ LET account_changes == compact_account_changes(block)
           accounts_rows == account_batch(account_changes)
           slots_rows == slot_batch(account_changes)
           block_result == insert_entire_block(pg, block, accounts_rows, slots_rows,
                                               historical_balance_batch(account_changes),
                                               historical_nonce_batch(account_changes))
       IN /\ pg' = block_result.db
          /\ IF block_result.modified_accounts # Len(accounts_rows)
             THEN calls' = Append(calls, Call(w, block, "Conflict", {"Account"}))
             ELSE IF block_result.modified_slots # Cardinality(slots_rows)
             THEN calls' = Append(calls, Call(w, block, "Conflict", {"PgSlot"}))
             ELSE calls' = Append(calls, Call(w, block, "Ok", {}))
    /\ UNCHANGED <<process, importer, headers, dag, waves, backend, state, block_number, pending, failed, cur, seeded, issued>>

\* PostgresPermanentStorage::save_block: one database transaction; it is
\* rolled back with Conflict(Account) or Conflict(PgSlot) when fewer rows were
\* modified than the batches hold, and committed otherwise.
pg_save_block(db, block) ==
    LET account_changes == compact_account_changes(block)
        accounts_rows == account_batch(account_changes)
        slots_rows == slot_batch(account_changes)
        expected_modified_slots == Cardinality(slots_rows)
        expected_modified_accounts == Len(accounts_rows)
        block_result == insert_entire_block(db, block, accounts_rows, slots_rows,
                                            historical_balance_batch(account_changes),
                                            historical_nonce_batch(account_changes))
    IN IF block_result.modified_accounts # expected_modified_accounts
       THEN [result |-> "Conflict", conflicts |-> {"Account"}, db |-> db]
       ELSE IF block_result.modified_slots # expected_modified_slots
       THEN [result |-> "Conflict", conflicts |-> {"PgSlot"}, db |-> db]
       ELSE [result |-> "Ok", conflicts |-> {}, db |-> block_result.db]
PgSaveBlock(w, block) ==
    /\ backend = "postgres"
    /\ Len(calls) < MaxSaves
    /\ \E saved \in {pg_save_block(pg, block)} :
          /\ calls' = Append(calls, Call(w, block, saved.result, saved.conflicts))
          /\ pg' = saved.db
    /\ UNCHANGED <<process, importer, headers, dag, waves, backend, state, block_number, pending, failed, cur, seeded, issued>>

\* The variant of save_accounts that passes no bytecode to insert_account.sql.
RECURSIVE PgInsertAccountsWithoutBytecode(_, _)
PgInsertAccountsWithoutBytecode(db, accounts) ==
    IF accounts = << >> THEN db
    ELSE LET acc == Head(accounts)
         IN PgInsertAccountsWithoutBytecode(
               [db EXCEPT !.accounts[acc.address] =
                              Some([latest_nonce |-> acc.nonce, latest_balance |-> acc.balance,
                                    bytecode |-> None,
                                    creation_block |-> 0]),
                          !.historical_balances[<<acc.address, 0>>] = Some(acc.balance),
                          !.historical_nonces[<<acc.address, 0>>] = Some(acc.nonce)],
               Tail(accounts))

\* PostgresPermanentStorage::save_accounts: per account, the account row and
\* its balance and nonce history rows at block 0.
RECURSIVE PgInsertAccounts(_, _)
PgInsertAccounts(db, accounts) ==
    IF accounts = << >> THEN db
    ELSE LET acc == Head(accounts)
         IN PgInsertAccounts(
               [db EXCEPT !.accounts[acc.address] =
                              Some([latest_nonce |-> acc.nonce, latest_balance |-> acc.balance,
                                    bytecode |-> acc.bytecode,
                                    creation_block |-> 0]),
                          !.historical_balances[<<acc.address, 0>>] = Some(acc.balance),
                          !.historical_nonces[<<acc.address, 0>>] = Some(acc.nonce)],
               Tail(accounts))
PgSaveAccounts(accounts) ==
    /\ backend = "postgres"
    /\ seeded = << >>
    /\ calls = << >>
    /\ pg' = PgInsertAccounts(pg, accounts)
    /\ seeded' = accounts
    /\ UNCHANGED <<process, importer, headers, dag, waves, backend, state, block_number, pending, failed, cur, calls, issued>>

\* select_account.sql and select_account_at_block.sql: the latest row, or the
\* nonce and the balance of the history rows with the largest block number <= n.
pg_read_account(db, address, point_in_time) ==
    IF point_in_time = Present
    THEN IF IsSome(db.accounts[address])
         THEN Some([nonce |-> Unwrap(db.accounts[address]).latest_nonce,
                    balance |-> Unwrap(db.accounts[address]).latest_balance,
                    bytecode |-> Unwrap(db.accounts[address]).bytecode,
                    code_hash |-> CodeHashOf(Unwrap(db.accounts[address]).bytecode)])
         ELSE None
    ELSE LET n == point_in_time[2]
             bytecode == IF IsSome(db.accounts[address])
                         THEN Unwrap(db.accounts[address]).bytecode ELSE None
             nrows == {h \in Heights : h <= n /\ IsSome(db.historical_nonces[<<address, h>>])}
             brows == {h \in Heights : h <= n /\ IsSome(db.historical_balances[<<address, h>>])}
         IN IF nrows = {} /\ brows = {} THEN None
            ELSE Some([nonce |-> IF nrows = {} THEN 0
                                 ELSE Unwrap(db.historical_nonces[<<address, Max(nrows)>>]),
                       balance |-> IF brows = {} THEN 0
                                   ELSE Unwrap(db.historical_balances[<<address, Max(brows)>>]),
                       bytecode |-> bytecode,
                       code_hash |-> CodeHashOf(bytecode)])

\* select_slot.sql and select_slot_at_block.sql
pg_read_slot(db, address, slot_index, point_in_time) ==
    IF point_in_time = Present
    THEN db.account_slots[<<address, slot_index>>]
    ELSE LET rows == {h \in Heights : h <= point_in_time[2]
                                      /\ IsSome(db.historical_slots[<<address, slot_index, h>>])}
         IN IF rows = {} THEN None ELSE db.historical_slots[<<address, slot_index, Max(rows)>>]

\* ------------------------------------------------------------------------
\* Specifications
\* ------------------------------------------------------------------------
Init ==
    /\ backend \in {"rocks", "postgres"}
    /\ state = EmptyState
    /\ block_number = 0
    /\ pending = [w \in W |-> {}]
    /\ failed = [w \in W |-> {}]
    /\ cur = [w \in W |-> 0]
    /\ calls = << >>
    /\ seeded = << >>
    /\ pg = EmptyPg
    /\ issued = << >>
    /\ dag = EmptyDag
    /\ waves = << >>
    /\ importer = IdleImporter
    /\ process = IdleProcess
    /\ headers = NoHeaders

\* One writer (the online importer) saving blocks one after the other, on
\* either backend.
Next ==
    \/ \E accounts \in SeedInputs : SaveAccounts(accounts)
    \/ \E block \in BlockInputs : SaveBlock("w1", block)
    \/ \E accounts \in SeedInputs : PgSaveAccounts(accounts)
    \/ \E block \in BlockInputs : PgSaveBlock("w1", block)

Spec == Init /\ [][Next]_vars

\* Two writers (the importer and the RPC executor of run-with-importer) saving
\* blocks concurrently on the embedded backend. The writers are
\* interchangeable: the first call is taken to be w1's.
\* The blocks of the race: a transfer that spends the balance of the genesis
\* account, built at any block from the genesis state; a store to a fresh slot
\* of the contract at block 1; a store built over the slot's default value at
\* the last block.
Transfer == Debit(MaxVal)
RaceInputs ==
    {MkBlock(n, Transfer) : n \in BlockNums} \cup {MkBlock(1, Store(MaxVal)), MkBlock(MaxBlock, Overwrite(0))}
Genesis == <<[address |-> "a1", nonce |-> 0, balance |-> MaxVal,
              bytecode |-> None, code_hash |-> CodeHashOf(None)]>>
InitRace == Init /\ backend = "rocks"
RaceBegin(w, block) ==
    /\ ~(w = "w2" /\ calls = << >>)
    /\ SaveBlockBegin(w, block)
NextRace ==
    \/ SaveAccounts(Genesis)
    \/ \E w \in W, block \in RaceInputs : RaceBegin(w, block)
    \/ \E w \in W, b \in Batches : RunBatch(w, b)
    \/ \E w \in W : SaveBlockEnd(w)

SpecRace == InitRace /\ [][NextRace]_vars

\* One writer on the embedded backend whose write batches may fail.
FaultInputs == {MkBlock(n, Transfer) : n \in BlockNums}
NextFault ==
    \/ SaveAccounts(Genesis)
    \/ \E block \in FaultInputs : SaveBlockBegin("w1", block)
    \/ \E b \in Batches : RunBatch("w1", b)
    \/ \E b \in Batches : FailBatch("w1", b)
    \/ SaveBlockEnd("w1")

SpecFault == InitRace /\ [][NextFault]_vars

\* save_block of one writer some of whose write batches fail: the writes of
\* the batches that did not fail are made, and the call returns Ok.
SaveBlockLosing(w, block, lost) ==
    /\ backend = "rocks"
    /\ cur[w] = 0
    /\ Len(calls) < MaxSaves
    /\ LET account_changes == compact_account_changes(block)
           conflicts == check_conflicts(state, account_changes)
       IN IF IsSome(conflicts)
          THEN /\ calls' = Append(calls, Call(w, block, "Conflict", Unwrap(conflicts)))
               /\ UNCHANGED state
          ELSE /\ calls' = Append(calls, Call(w, block, "Ok", {}))
               /\ state' = ApplyBatches(state, BatchOrder, Fanout(block) \ lost, block)
    /\ UNCHANGED <<process, importer, headers, dag, waves, backend, block_number, pending, failed, cur,
                   seeded, pg, issued>>
\* The batches that fail together: none, those of the account rows, or those
\* of the slot rows.
LostBatches ==
    {{}, {"accounts", "accounts_history"}, {"account_slots", "account_slots_history"}}
\* Blocks that spend a balance, increment a nonce, or write a slot with or
\* without an original.
LosingInputs ==
    {MkBlock(n, c) : n \in BlockNums,
                     c \in {Debit(MaxVal), Bump(0), Store(MaxVal), Overwrite(0), Overwrite(MaxVal)}}
NextLosing ==
    \/ SaveAccounts(Genesis)
    \/ \E block \in LosingInputs, lost \in LostBatches : SaveBlockLosing("w1", block, lost)

SpecLosing == InitRace /\ [][NextLosing]_vars

\* ------------------------------------------------------------------------
\* Block number operations
\* ------------------------------------------------------------------------
Issue(op, arg, result) == [op |-> op, arg |-> arg, result |-> result]

\* RocksPermanentStorage::increment_block_number: fetch_add(1) + 1
IncrementBlockNumber ==
    /\ backend = "rocks"
    /\ Len(issued) < MaxCounterCalls
    /\ block_number' = block_number + 1
    /\ issued' = Append(issued, Issue("increment", 0, block_number + 1))
    /\ UNCHANGED <<process, importer, headers, dag, waves, backend, state, pending, failed, cur, calls, seeded, pg>>

\* RocksPermanentStorage::set_mined_block_number: store(number)
SetMinedBlockNumber(number) ==
    /\ backend = "rocks"
    /\ Len(issued) < MaxCounterCalls
    /\ block_number' = number
    /\ issued' = Append(issued, Issue("set", number, "Ok"))
    /\ UNCHANGED <<process, importer, headers, dag, waves, backend, state, pending, failed, cur, calls, seeded, pg>>

\* RocksPermanentStorage::read_mined_block_number: load()
ReadMinedBlockNumber ==
    /\ backend = "rocks"
    /\ Len(issued) < MaxCounterCalls
    /\ issued' = Append(issued, Issue("read", 0, block_number))
    /\ UNCHANGED <<process, importer, headers, dag, waves, backend, state, block_number, pending, failed, cur, calls, seeded, pg>>

\* select_current_block_number.sql: the largest number of a stored block, 0
\* when there is none.
select_current_block_number(db) ==
    IF \E n \in BlockNums : IsSome(db.blocks[n])
    THEN Max({n \in BlockNums : IsSome(db.blocks[n])})
    ELSE 0

\* query_file_scalar!(select_current_block_number.sql).fetch_one(&self.pool):
\* the number selected, or nothing when the query failed.
fetch_one(db, query_failed) == IF query_failed THEN None ELSE Some(select_current_block_number(db))
\* The variant of read_mined_block_number that returns the error of the query
\* (written -1).
pg_read_mined_block_number_propagating(db, query_failed) ==
    IF IsSome(fetch_one(db, query_failed)) THEN Unwrap(fetch_one(db, query_failed)) ELSE 0 - 1
\* PostgresPermanentStorage::read_mined_block_number:
\* fetch_one(..).await.unwrap_or(BigDecimal::from(0)), then try_into()
pg_read_mined_block_number(db, query_failed) == unwrap_or(fetch_one(db, query_failed), 0)
\* PostgresPermanentStorage::increment_block_number:
\* fetch_one(..).await.unwrap_or_else(|err| { ..; BigDecimal::from(0) }) + 1,
\* then try_into()
pg_increment_block_number(db, query_failed) == unwrap_or(fetch_one(db, query_failed), 0) + 1

\* PostgresPermanentStorage::increment_block_number: the current number plus
\* one; nothing is written.  arg records whether the query failed.
PgIncrementBlockNumber(query_failed) ==
    /\ backend = "postgres"
    /\ Len(issued) < MaxCounterCalls
    /\ issued' = Append(issued, Issue("increment", IF query_failed THEN 1 ELSE 0,
                                      pg_increment_block_number(pg, query_failed)))
    /\ UNCHANGED <<process, importer, headers, dag, waves, backend, state, block_number, pending, failed, cur, calls, seeded, pg>>

\* PostgresPermanentStorage::set_mined_block_number: nothing to do, Ok(())
PgSetMinedBlockNumber(number) ==
    /\ backend = "postgres"
    /\ Len(issued) < MaxCounterCalls
    /\ issued' = Append(issued, Issue("set", number, "Ok"))
    /\ UNCHANGED <<process, importer, headers, dag, waves, backend, state, block_number, pending, failed, cur, calls, seeded, pg>>

\* PostgresPermanentStorage::read_mined_block_number; arg records whether the
\* query failed.
PgReadMinedBlockNumber(query_failed) ==
    /\ backend = "postgres"
    /\ Len(issued) < MaxCounterCalls
    /\ issued' = Append(issued, Issue("read", IF query_failed THEN 1 ELSE 0,
                                      pg_read_mined_block_number(pg, query_failed)))
    /\ UNCHANGED <<process, importer, headers, dag, waves, backend, state, block_number, pending, failed, cur, calls, seeded, pg>>

\* Callers of the block number operations, in any interleaving of their
\* calls, on either backend; blocks are saved in between.  The queries of the
\* SQL backend succeed.
NextCounter ==
    \/ IncrementBlockNumber
    \/ \E number \in Heights : SetMinedBlockNumber(number)
    \/ ReadMinedBlockNumber
    \/ PgIncrementBlockNumber(FALSE)
    \/ \E number \in Heights : PgSetMinedBlockNumber(number)
    \/ PgReadMinedBlockNumber(FALSE)
    \/ \E n \in BlockNums : PgSaveBlock("w1", MkBlock(n, Store(MaxVal)))
    \/ \E n \in BlockNums : SaveBlock("w1", MkBlock(n, Store(MaxVal)))

SpecCounter == Init /\ [][NextCounter]_vars

\* Callers of the two block number operations of the SQL backend that query
\* the database, whose query may fail; blocks are saved in between.
NextQuery ==
    \/ \E query_failed \in BOOLEAN : PgIncrementBlockNumber(query_failed)
    \/ \E query_failed \in BOOLEAN : PgReadMinedBlockNumber(query_failed)
    \/ \E n \in BlockNums : PgSaveBlock("w1", MkBlock(n, Store(MaxVal)))

SpecQuery == Init /\ [][NextQuery]_vars

\* Blocks of any number, the number 0 included, are saved on the SQL backend.
NextEarliest ==
    \E n \in Heights, change \in Changes : PgSaveBlock("w1", MkBlock(n, change))

SpecEarliest == Init /\ [][NextEarliest]_vars

\* ------------------------------------------------------------------------
\* The two backends side by side
\* ------------------------------------------------------------------------
\* One embedded storage and one SQL storage, both empty, are given the same
\* genesis accounts and the same blocks, call by call; calls holds the
\* results of the embedded storage, issued those of the SQL storage.
InitBoth ==
    /\ backend = "both"
    /\ state = EmptyState
    /\ block_number = 0
    /\ pending = [w \in W |-> {}]
    /\ failed = [w \in W |-> {}]
    /\ cur = [w \in W |-> 0]
    /\ calls = << >>
    /\ seeded = << >>
    /\ pg = EmptyPg
    /\ issued = << >>
    /\ dag = EmptyDag
    /\ waves = << >>
    /\ importer = IdleImporter
    /\ process = IdleProcess
    /\ headers = NoHeaders
SaveAccountsOnBoth(accounts) ==
    /\ backend = "both"
    /\ seeded = << >>
    /\ calls = << >>
    /\ state' = InsertAccounts(state, accounts)
    /\ pg' = PgInsertAccounts(pg, accounts)
    /\ seeded' = accounts
    /\ UNCHANGED <<process, importer, headers, dag, waves, backend, block_number, pending, failed, cur, calls, issued>>
SaveBlockOnBoth(block) ==
    /\ backend = "both"
    /\ Len(calls) < MaxSaves
    /\ \E saved \in {save_block(state, block)}, pg_saved \in {pg_save_block(pg, block)} :
          /\ calls' = Append(calls, Call("w1", block, saved.result, saved.conflicts))
          /\ state' = saved.state
          /\ issued' = Append(issued, Issue("save_block", block.number, pg_saved.result))
          /\ pg' = pg_saved.db
    /\ UNCHANGED <<process, importer, headers, dag, waves, backend, block_number, pending, failed, cur, seeded>>
NextBoth ==
    \/ \E accounts \in SeedInputs : SaveAccountsOnBoth(accounts)
    \/ \E block \in BlockInputs : SaveBlockOnBoth(block)

SpecBoth == InitBoth /\ [][NextBoth]_vars

\* ------------------------------------------------------------------------
\* Transaction DAG of the relayer
\* ------------------------------------------------------------------------
MaxTxs == 3
MaxTakes == 5
TxIndexes == 0 .. (MaxTxs - 1)
\* A balance read and written back unchanged.
Refund == [address |-> "a1", nonce |-> Untouched,
           balance |-> [original |-> Some(MaxVal), modified |-> Some(MaxVal)], slots |-> NoSlots]
\* tx.execution.changes of the transactions of a block: a transfer to or from
\* the externally-owned account, a nonce increment, a balance written back
\* unchanged, a store to the slot of the contract, or a transfer and a store.
DagChanges ==
    {<<change>> : change \in {Credit(MaxVal), Debit(MaxVal), Bump(0), Refund,
                              Store(MaxVal), Overwrite(0)}}
       \cup {<<Debit(MaxVal), Store(MaxVal)>>}
\* block_transactions: transactions of different transaction_index.
DagInputs ==
    UNION {[indexes -> DagChanges] : indexes \in SUBSET TxIndexes}
TxsOf(input) == {[transaction_index |-> i, changes |-> input[i]] : i \in DOMAIN input}

\* slot_conflicts[tx_idx] and balance_conflicts[tx_idx]
slot_conflicts(tx) ==
    UNION {{<<tx.changes[k].address, idx>> :
               idx \in {i \in DOMAIN tx.changes[k].slots :
                          /\ IsSome(tx.changes[k].slots[i])
                          /\ is_modified(Unwrap(tx.changes[k].slots[i]))}} :
           k \in DOMAIN tx.changes}
\* The variant of balance_conflicts that counts every balance that is set,
\* modified or not.
balance_conflicts_of_any_change(tx) ==
    {tx.changes[k].address : k \in {j \in DOMAIN tx.changes : IsSome(tx.changes[j].balance.modified)}}
balance_conflicts(tx) ==
    {tx.changes[k].address : k \in {j \in DOMAIN tx.changes : is_modified(tx.changes[j].balance)}}
\* The edges added by the two loops of new: from the lower to the higher
\* transaction_index, when the sets of the two transactions are not disjoint.
SlotEdges(txs) ==
    {<<tx1.transaction_index, tx2.transaction_index>> :
        <<tx1, tx2>> \in {p \in txs \X txs :
                            /\ p[1].transaction_index < p[2].transaction_index
                            /\ slot_conflicts(p[1]) \cap slot_conflicts(p[2]) # {}}}
BalanceEdges(txs) ==
    {<<tx1.transaction_index, tx2.transaction_index>> :
        <<tx1, tx2>> \in {p \in txs \X txs :
                            /\ p[1].transaction_index < p[2].transaction_index
                            /\ balance_conflicts(p[1]) \cap balance_conflicts(p[2]) # {}}}

\* The variant of new with the loop over balance_conflicts left out.
new_without_balance_edges(block_transactions) ==
    [txs |-> block_transactions,
     nodes |-> {tx.transaction_index : tx \in block_transactions},
     edges |-> SlotEdges(block_transactions)]

\* TransactionDag::new: one node per transaction, and the edges of the slot
\* conflicts and of the balance conflicts.
new(block_transactions) ==
    [txs |-> block_transactions,
     nodes |-> {tx.transaction_index : tx \in block_transactions},
     edges |-> SlotEdges(block_transactions) \cup BalanceEdges(block_transactions)]

\* The variant of root_indexes that takes every node of the graph.
all_indexes(d) == d.nodes
\* dag.parents(index) and the nodes without one, in the order of
\* node_identifiers (the order of insertion: ascending transaction_index).
parents(d, index) == {p \in d.nodes : <<p, index>> \in d.edges}
root_indexes(d) == {index \in d.nodes : parents(d, index) = {}}
\* while let Some(root) = root_indexes.pop(): the roots, last found first.
RECURSIVE Popped(_)
Popped(indexes) ==
    IF indexes = {} THEN << >>
    ELSE <<Max(indexes)>> \o Popped(indexes \ {Max(indexes)})

\* The variant of take_roots that returns the roots and leaves them in the graph.
take_roots_without_removing(d) ==
    [dag |-> d,
     roots |-> IF root_indexes(d) = {} THEN None ELSE Some(Popped(root_indexes(d)))]

\* The variant of take_roots that removes and returns one root per call.
take_roots_one_at_a_time(d) ==
    LET roots == IF root_indexes(d) = {} THEN {} ELSE {Max(root_indexes(d))}
    IN [dag |-> [d EXCEPT !.nodes = @ \ roots,
                          !.edges = {e \in @ : e[1] \notin roots /\ e[2] \notin roots}],
        roots |-> IF roots = {} THEN None ELSE Some(Popped(roots))]

\* TransactionDag::take_roots: the nodes without a parent are removed, with
\* their edges, and returned; None when there is none.
take_roots(d) ==
    LET roots == root_indexes(d)
    IN [dag |-> [d EXCEPT !.nodes = @ \ roots,
                          !.edges = {e \in @ : e[1] \notin roots /\ e[2] \notin roots}],
        roots |-> IF roots = {} THEN None ELSE Some(Popped(roots))]

\* tests::create_tx: a transaction of the given index whose only change, for
\* the zero address, modifies the given slots (from_modified: no original).
ADDRESS == "a0"
create_tx_reading_slots(changed_slots_indices, tx_idx) ==
    [transaction_index |-> tx_idx,
     changes |-> <<[address |-> ADDRESS, nonce |-> Untouched, balance |-> Untouched,
                    slots |-> [index \in changed_slots_indices |-> Some(ReadOnly(0))]]>>]
create_tx(changed_slots_indices, tx_idx) ==
    [transaction_index |-> tx_idx,
     changes |-> <<[address |-> ADDRESS, nonce |-> Untouched, balance |-> Untouched,
                    slots |-> [index \in changed_slots_indices |->
                                 Some([original |-> None, modified |-> Some(0)])]]>>]
\* The three inputs of test_compute_tx_dag_and_take_roots and the waves it expects.
tests ==
    << <<{1}, {2}, {1, 2, 3}, {3, 4, 5}, {4, 7}, {3, 8}, {8, 7}>>,
       <<{1, 2}, {1, 3}, {2, 7}, {3, 4, 5}, {7, 8, 9}, {4, 10}, {5, 11}, {8, 12}, {9, 13},
         {10, 11, 12, 13}>>,
       <<{1}, {1, 2, 3}, {13}, {14, 15}, {2, 4, 5, 6, 13, 14}, {4, 12, 15, 16}, {5, 9, 16},
         {3, 6, 7, 10}, {9, 10, 11, 12}, {11}, {7, 8}, {8}>> >>
expected_results ==
    << <<{0, 1}, {2}, {3}, {4, 5}, {6}>>,
       <<{0}, {1, 2}, {3, 4}, {5, 6, 7, 8}, {9}>>,
       <<{0, 2, 3}, {1}, {4}, {5, 7}, {6, 10}, {8, 11}, {9}>> >>
\* .enumerate().map(|(i, indexes)| create_tx(indexes.collect(), i as u64))
PinnedTxs(test) == {create_tx(test[i], i - 1) : i \in DOMAIN test}

\* The relayer builds the DAG of a block and takes its roots until there is none.
InitDag ==
    /\ backend = "rocks"
    /\ state = EmptyState
    /\ block_number = 0
    /\ pending = [w \in W |-> {}]
    /\ failed = [w \in W |-> {}]
    /\ cur = [w \in W |-> 0]
    /\ calls = << >>
    /\ seeded = << >>
    /\ pg = EmptyPg
    /\ issued = << >>
    /\ \/ dag \in {new(TxsOf(input)) : input \in DagInputs}
       \/ \E t \in DOMAIN tests : dag = new(PinnedTxs(tests[t]))
    /\ waves = << >>
    /\ importer = IdleImporter
    /\ process = IdleProcess
    /\ headers = NoHeaders
\* while let Some(roots) = dag.take_roots(), and the calls made after None.
TakeRoots ==
    /\ \/ Len(waves) < MaxTakes
       \/ waves # << >> /\ waves[Len(waves)] # None
    /\ \E taken \in {take_roots(dag)} :
          /\ dag' = taken.dag
          /\ waves' = Append(waves, taken.roots)
    /\ UNCHANGED <<process, importer, headers, backend, state, block_number, pending, failed, cur, calls,
                   seeded, pg, issued>>
NextDag == TakeRoots

SpecDag == InitDag /\ [][NextDag]_vars

\* ------------------------------------------------------------------------
\* Genesis
\* ------------------------------------------------------------------------
\* The accounts given to save_accounts: one account or two, of different
\* addresses, externally-owned or with bytecode.
GenesisInputs ==
    {<<a>> : a \in Accounts} \cup
    {<<a, b>> : <<a, b>> \in {p \in Accounts \X Accounts : p[1].address # p[2].address}}
NextGenesis ==
    \/ \E accounts \in GenesisInputs : SaveAccounts(accounts)
    \/ \E accounts \in GenesisInputs : PgSaveAccounts(accounts)

SpecGenesis == Init /\ [][NextGenesis]_vars

\* ------------------------------------------------------------------------
\* reset_at
\* ------------------------------------------------------------------------
MaxResets == 2
ResetsIssued == Cardinality({i \in DOMAIN issued : issued[i].op = "reset"})

\* The variant of the closure of fetch_update that takes the number away from
\* the counter instead of storing it: a faulty reset that is not idempotent.
reset_block_number_subtracting(current, n) ==
    IF n <= current THEN current - n ELSE current

\* The closure of fetch_update in reset_at: the counter becomes the given
\* number when the number is not above it, and is left alone otherwise.
reset_block_number(current, n) ==
    IF n <= current THEN n ELSE current

\* RocksStorageState::reset_at(n): the history rows, blocks, transactions and
\* logs of the blocks above n are removed, and the latest accounts and slots
\* become what the remaining history holds for them.
state_reset_at(st, n) ==
    LET accounts_history == [k \in Addr \X Heights |->
                                IF k[2] > n THEN None ELSE st.accounts_history[k]]
        account_slots_history == [k \in Addr \X SlotIdx \X Heights |->
                                IF k[3] > n THEN None ELSE st.account_slots_history[k]]
        kept == [st EXCEPT !.accounts_history = accounts_history,
                           !.account_slots_history = account_slots_history]
    IN [accounts |-> [a \in Addr |-> read_account(kept, a, Past(n))],
        account_slots |-> [k \in Addr \X SlotIdx |-> read_slot(kept, k[1], k[2], Past(n))],
        accounts_history |-> accounts_history,
        account_slots_history |-> account_slots_history,
        transactions |-> [h \in TxHashes |->
            IF IsSome(st.transactions[h]) /\ Unwrap(st.transactions[h]) > n
            THEN None ELSE st.transactions[h]],
        logs |-> [k \in TxHashes \X LogIdx |->
            IF IsSome(st.logs[k]) /\ Unwrap(st.logs[k]) > n THEN None ELSE st.logs[k]],
        blocks_by_number |-> [b \in BlockNums |->
            IF b > n THEN None ELSE st.blocks_by_number[b]],
        blocks_by_hash |-> [h \in Hashes |->
            IF IsSome(st.blocks_by_hash[h]) /\ Unwrap(st.blocks_by_hash[h]) > n
            THEN None ELSE st.blocks_by_hash[h]]]

\* The variant of reset_at that resets the counter and leaves the tables alone.
ResetAtCounterOnly(number) ==
    /\ backend = "rocks"
    /\ ResetsIssued < MaxResets
    /\ block_number' = reset_block_number(block_number, number)
    /\ issued' = Append(issued, Issue("reset", number, "Ok"))
    /\ UNCHANGED <<process, importer, headers, dag, waves, backend, state, pending, failed, cur, calls, seeded, pg>>

\* RocksPermanentStorage::reset_at
ResetAt(number) ==
    /\ backend = "rocks"
    /\ ResetsIssued < MaxResets
    /\ block_number' = reset_block_number(block_number, number)
    /\ state' = state_reset_at(state, number)
    /\ issued' = Append(issued, Issue("reset", number, "Ok"))
    /\ UNCHANGED <<process, importer, headers, dag, waves, backend, pending, failed, cur, calls, seeded, pg>>

\* delete_after_block.sql: the rows of the blocks above the number are deleted
\* from every table, the accounts and the slots created above it included.
delete_after_block(db, n) ==
    [accounts |-> [a \in Addr |->
        IF IsSome(db.accounts[a]) /\ Unwrap(db.accounts[a]).creation_block > n
        THEN None ELSE db.accounts[a]],
     account_slots |-> [k \in Addr \X SlotIdx |->
        IF \E h \in Heights : h <= n /\ IsSome(db.historical_slots[<<k[1], k[2], h>>])
        THEN db.account_slots[k] ELSE None],
     historical_nonces |-> [k \in Addr \X Heights |->
        IF k[2] > n THEN None ELSE db.historical_nonces[k]],
     historical_balances |-> [k \in Addr \X Heights |->
        IF k[2] > n THEN None ELSE db.historical_balances[k]],
     historical_slots |-> [k \in Addr \X SlotIdx \X Heights |->
        IF k[3] > n THEN None ELSE db.historical_slots[k]],
     blocks |-> [b \in Heights |-> IF b > n THEN None ELSE db.blocks[b]],
     transactions |-> [h \in TxHashes |->
        IF IsSome(db.transactions[h]) /\ Unwrap(db.transactions[h]) > n
        THEN None ELSE db.transactions[h]],
     logs |-> [k \in TxHashes \X LogIdx |->
        IF IsSome(db.logs[k]) /\ Unwrap(db.logs[k]) > n THEN None ELSE db.logs[k]]]

\* The block number of the last history row a table holds for a key.
LastRow(table, key) ==
    Max({h \in Heights : IsSome(table[key \o <<h>>])})
HasRow(table, key) == \E h \in Heights : IsSome(table[key \o <<h>>])

\* update_account_reset_balance.sql: the latest balance of every account
\* becomes the balance of its last history row.
update_account_reset_balance(db) ==
    [db EXCEPT !.accounts = [a \in Addr |->
        IF IsSome(db.accounts[a]) /\ HasRow(db.historical_balances, <<a>>)
        THEN Some([Unwrap(db.accounts[a]) EXCEPT !.latest_balance =
                      Unwrap(db.historical_balances[<<a, LastRow(db.historical_balances, <<a>>)>>])])
        ELSE db.accounts[a]]]
\* update_account_reset_nonce.sql
update_account_reset_nonce(db) ==
    [db EXCEPT !.accounts = [a \in Addr |->
        IF IsSome(db.accounts[a]) /\ HasRow(db.historical_nonces, <<a>>)
        THEN Some([Unwrap(db.accounts[a]) EXCEPT !.latest_nonce =
                      Unwrap(db.historical_nonces[<<a, LastRow(db.historical_nonces, <<a>>)>>])])
        ELSE db.accounts[a]]]
\* update_account_slots_reset_value.sql
update_account_slots_reset_value(db) ==
    [db EXCEPT !.account_slots = [k \in Addr \X SlotIdx |->
        IF IsSome(db.account_slots[k]) /\ HasRow(db.historical_slots, k)
        THEN db.historical_slots[<<k[1], k[2], LastRow(db.historical_slots, k)>>]
        ELSE db.account_slots[k]]]

\* The variant of reset_at that leaves the latest balances as they are.
PgResetAtKeepingBalances(number) ==
    /\ backend = "postgres"
    /\ ResetsIssued < MaxResets
    /\ pg' = update_account_slots_reset_value(
                update_account_reset_nonce(delete_after_block(pg, number)))
    /\ issued' = Append(issued, Issue("reset", number, "Ok"))
    /\ UNCHANGED <<process, importer, headers, dag, waves, backend, state, block_number, pending, failed, cur, calls, seeded>>

\* PostgresPermanentStorage::reset_at: the four statements, one after the other.
PgResetAt(number) ==
    /\ backend = "postgres"
    /\ ResetsIssued < MaxResets
    /\ pg' = update_account_slots_reset_value(
                update_account_reset_nonce(
                   update_account_reset_balance(delete_after_block(pg, number))))
    /\ issued' = Append(issued, Issue("reset", number, "Ok"))
    /\ UNCHANGED <<process, importer, headers, dag, waves, backend, state, block_number, pending, failed, cur, calls, seeded>>

\* The blocks saved before a reset: each block is the successor of the highest
\* block stored, and carries a transfer to or from the externally-owned
\* account or a store to the slot of the contract.
ResetChanges == {Credit(MaxVal), Debit(MaxVal), Store(MaxVal), Overwrite(MaxVal)}
HighestStored ==
    IF backend = "rocks"
    THEN IF \E n \in BlockNums : IsSome(state.blocks_by_number[n])
         THEN Max({n \in BlockNums : IsSome(state.blocks_by_number[n])})
         ELSE 0
    ELSE select_current_block_number(pg)
NextBlocks == {MkBlock(n, change) : n \in {HighestStored + 1} \cap BlockNums, change \in ResetChanges}

\* One writer saving blocks in order and resetting the storage, on either
\* backend; the counter of the embedded backend starts at any block number
\* the increments before the first save may have left.
InitReset ==
    /\ backend \in {"rocks", "postgres"}
    /\ state = EmptyState
    /\ block_number \in IF backend = "rocks" THEN Heights ELSE {0}
    /\ pending = [w \in W |-> {}]
    /\ failed = [w \in W |-> {}]
    /\ cur = [w \in W |-> 0]
    /\ calls = << >>
    /\ seeded = << >>
    /\ pg = EmptyPg
    /\ issued = << >>
    /\ dag = EmptyDag
    /\ waves = << >>
    /\ importer = IdleImporter
    /\ process = IdleProcess
    /\ headers = NoHeaders
NextReset ==
    \/ \E accounts \in SeedInputs : SaveAccounts(accounts)
    \/ \E accounts \in SeedInputs : PgSaveAccounts(accounts)
    \/ \E block \in NextBlocks : SaveBlock("w1", block)
    \/ \E block \in NextBlocks : PgSaveBlock("w1", block)
    \/ \E number \in Heights : ResetAt(number)
    \/ \E number \in Heights : PgResetAt(number)

SpecReset == InitReset /\ [][NextReset]_vars

\* ------------------------------------------------------------------------
\* Online importer
\* ------------------------------------------------------------------------
\* Number of blocks imported, and of get_block_by_number requests made, in one
\* behaviour.
MaxImports == 2
MaxRequests == 4

\* The variant of next_block_number that leaves one number out.
next_block_number_skipping(number) == number + 2
\* BlockNumber::next_block_number (number.next() in the importer)
next_block_number(number) == number + 1

\* storage.read_current_block_number(): the mined block number of the
\* permanent storage.
read_current_block_number ==
    IF backend = "rocks" THEN block_number ELSE select_current_block_number(pg)

\* What chain.get_block_by_number(number) answers: a transport error, the JSON
\* null of a block not mined yet, the JSON of the block, or JSON that is not
\* null and does not deserialize to a block.
Responses == {"Err", "null", "block", "malformed"}

\* The variant of fetch_block that retries on null only and returns the
\* transport error to its caller.
fetch_block_giving_up(response) ==
    CASE response = "Err" -> [pc |-> "exited", result |-> "transport error", sleep |-> FALSE]
      [] response = "null" -> [pc |-> "fetch_block", result |-> "Running", sleep |-> FALSE]
      [] response = "block" -> [pc |-> "fetch_receipts", result |-> "Running", sleep |-> FALSE]
      [] response = "malformed" ->
            [pc |-> "exited", result |-> "failed to deserialize external block",
             sleep |-> FALSE]

\* fetch_block, one request: continue on a transport error and on null
\* (builds without the perf feature); otherwise break, and the block or the
\* deserialization error is returned, which main propagates with `?`.  No
\* branch awaits a sleep before the next request.
fetch_block(response) ==
    CASE response = "Err" -> [pc |-> "fetch_block", result |-> "Running", sleep |-> FALSE]
      [] response = "null" -> [pc |-> "fetch_block", result |-> "Running", sleep |-> FALSE]
      [] response = "block" -> [pc |-> "fetch_receipts", result |-> "Running", sleep |-> FALSE]
      [] response = "malformed" ->
            [pc |-> "exited", result |-> "failed to deserialize external block",
             sleep |-> FALSE]

\* What chain.get_transaction_receipt(hash) answers: a transport error, the
\* JSON null of a receipt not available yet, the JSON of the receipt, or JSON
\* that is not null and does not deserialize to a receipt.
ReceiptResponses == {"Err", "null", "receipt", "malformed"}

\* The variant of fetch_receipt that returns the transport error to its caller.
fetch_receipt_giving_up(response) ==
    CASE response = "Err" ->
            [status |-> "in_flight", pc |-> "exited", result |-> "transport error"]
      [] response = "null" ->
            [status |-> "in_flight", pc |-> "fetch_receipts", result |-> "Running"]
      [] response = "receipt" ->
            [status |-> "done", pc |-> "fetch_receipts", result |-> "Running"]
      [] response = "malformed" ->
            [status |-> "in_flight", pc |-> "exited",
             result |-> "failed to deserialize external receipt"]
\* The variant of fetch_receipt that yields a receipt for JSON that does not
\* deserialize.
fetch_receipt_skipping_malformed(response) ==
    CASE response = "Err" ->
            [status |-> "in_flight", pc |-> "fetch_receipts", result |-> "Running"]
      [] response = "null" ->
            [status |-> "in_flight", pc |-> "fetch_receipts", result |-> "Running"]
      [] response = "receipt" ->
            [status |-> "done", pc |-> "fetch_receipts", result |-> "Running"]
      [] response = "malformed" ->
            [status |-> "done", pc |-> "fetch_receipts", result |-> "Running"]
\* fetch_receipt, one request for the receipt of one transaction hash:
\* continue on a transport error and on null; otherwise break, and the receipt
\* or the deserialization error is returned, which try_collect propagates.
fetch_receipt(response) ==
    CASE response = "Err" ->
            [status |-> "in_flight", pc |-> "fetch_receipts", result |-> "Running"]
      [] response = "null" ->
            [status |-> "in_flight", pc |-> "fetch_receipts", result |-> "Running"]
      [] response = "receipt" ->
            [status |-> "done", pc |-> "fetch_receipts", result |-> "Running"]
      [] response = "malformed" ->
            [status |-> "in_flight", pc |-> "exited",
             result |-> "failed to deserialize external receipt"]

\* The numbers of transactions of the blocks the upstream node answers with.
Transactions == 0..2
\* const RECEIPTS_PARALELLISM: usize = 10
RECEIPTS_PARALELLISM == 10
\* The receipt futures of the stream that were polled and have not completed.
InFlight(receipts) == {i \in DOMAIN receipts : receipts[i] = "in_flight"}
\* The variant of buffered that polls every future of the stream at once.
buffered_unbounded(receipts, n) == TRUE
\* stream::iter(receipts).buffered(n): the stream polls its next future only
\* while fewer than n of them are in progress.
buffered(receipts, n) == Cardinality(InFlight(receipts)) < n

\* let mut number = storage.read_current_block_number().await?
ImporterStart ==
    /\ importer.pc = "main"
    /\ importer' = [importer EXCEPT !.pc = "loop",
                                    !.start = read_current_block_number,
                                    !.number = read_current_block_number]
    /\ UNCHANGED <<process, headers, dag, waves, backend, state, block_number, pending, failed, cur, calls,
                   seeded, pg, issued>>
\* loop { number = number.next(); ...: the loop has no condition and
\* its body starts with the increment.
ImporterNext ==
    /\ importer.pc = "loop"
    /\ Len(importer.imported) < MaxImports
    /\ importer' = [importer EXCEPT !.pc = "fetch_block",
                                    !.number = next_block_number(importer.number)]
    /\ UNCHANGED <<process, headers, dag, waves, backend, state, block_number, pending, failed, cur, calls,
                   seeded, pg, issued>>
\* One request of fetch_block(&chain, number) and what follows its response;
\* for a block of `transactions` transactions, main pushes one receipt future
\* per transaction, none of them polled yet.
FetchBlock(response, transactions) ==
    /\ importer.pc = "fetch_block"
    /\ Len(importer.requests) < MaxRequests
    /\ \E fetched \in {fetch_block(response)} :
          importer' = [importer EXCEPT
                          !.requests = Append(@, [number |-> importer.number, response |-> response]),
                          !.pc = fetched.pc,
                          !.result = fetched.result,
                          !.sleeps = IF fetched.sleep THEN @ + 1 ELSE @,
                          !.receipts = IF fetched.pc = "fetch_receipts"
                                       THEN [i \in 1..transactions |-> "queued"]
                                       ELSE @,
                          !.receipt_requests = 0,
                          !.last_receipt = {}]
    /\ UNCHANGED <<process, headers, dag, waves, backend, state, block_number, pending, failed, cur, calls,
                   seeded, pg, issued>>
\* The buffered stream polls, for the first time, the next receipt future in
\* the order of the transactions.
StartReceipt ==
    /\ importer.pc = "fetch_receipts"
    /\ buffered(importer.receipts, RECEIPTS_PARALELLISM)
    /\ \E i \in DOMAIN importer.receipts :
          /\ importer.receipts[i] = "queued"
          /\ \A j \in 1..(i - 1) : importer.receipts[j] # "queued"
          /\ importer' = [importer EXCEPT !.receipts[i] = "in_flight"]
    /\ UNCHANGED <<process, headers, dag, waves, backend, state, block_number, pending, failed, cur, calls,
                   seeded, pg, issued>>
\* One request of fetch_receipt(&chain, tx.hash()) for the i-th transaction of
\* the block and what follows its response.
FetchReceipt(i, response) ==
    /\ importer.pc = "fetch_receipts"
    /\ i \in InFlight(importer.receipts)
    /\ importer.receipt_requests < Len(importer.receipts) + MaxRequests
    /\ \E fetched \in {fetch_receipt(response)} :
          importer' = [importer EXCEPT
                          !.receipts[i] = fetched.status,
                          !.receipt_requests = @ + 1,
                          !.last_receipt = {[index |-> i, response |-> response]},
                          !.pc = fetched.pc,
                          !.result = fetched.result]
    /\ UNCHANGED <<process, headers, dag, waves, backend, state, block_number, pending, failed, cur, calls,
                   seeded, pg, issued>>
\* try_collect().await?: every receipt of the block was fetched.
TryCollect ==
    /\ importer.pc = "fetch_receipts"
    /\ \A i \in DOMAIN importer.receipts : importer.receipts[i] = "done"
    /\ importer' = [importer EXCEPT !.pc = "import"]
    /\ UNCHANGED <<process, headers, dag, waves, backend, state, block_number, pending, failed, cur, calls,
                   seeded, pg, issued>>
\* executor.import_external(block, &mut receipts).await?: on success the loop
\* goes on, on failure main returns the error.  What the executor writes to
\* the storage is not part of the importer.
ImportExternal(succeeded) ==
    /\ importer.pc = "import"
    /\ importer' = IF succeeded
                   THEN [importer EXCEPT !.pc = "loop", !.imported = Append(@, importer.number)]
                   ELSE [importer EXCEPT !.pc = "exited", !.result = "import_external failed"]
    /\ UNCHANGED <<process, headers, dag, waves, backend, state, block_number, pending, failed, cur, calls,
                   seeded, pg, issued>>
\* The process-wide shutdown signal is set (by a signal handler or by a task
\* that ended).
SetShutdown ==
    /\ ~process.shutdown
    /\ process' = [process EXCEPT !.shutdown = TRUE]
    /\ UNCHANGED <<importer, headers, dag, waves, backend, state, block_number, pending,
                   failed, cur, calls, seeded, pg, issued>>

\* The importer is started on a storage whose mined block number is any height.
InitImporter ==
    /\ backend = "rocks"
    /\ state = EmptyState
    /\ block_number \in Heights
    /\ pending = [w \in W |-> {}]
    /\ failed = [w \in W |-> {}]
    /\ cur = [w \in W |-> 0]
    /\ calls = << >>
    /\ seeded = << >>
    /\ pg = EmptyPg
    /\ issued = << >>
    /\ dag = EmptyDag
    /\ waves = << >>
    /\ importer = IdleImporter
    /\ process = IdleProcess
    /\ headers = NoHeaders
NextImporter ==
    \/ ImporterStart
    \/ ImporterNext
    \/ \E response \in Responses, transactions \in Transactions :
          FetchBlock(response, transactions)
    \/ StartReceipt
    \/ \E i \in Transactions, response \in ReceiptResponses : FetchReceipt(i, response)
    \/ TryCollect
    \/ \E succeeded \in BOOLEAN : ImportExternal(succeeded)
    \/ SetShutdown

SpecImporter == InitImporter /\ [][NextImporter]_vars

\* A block with more transactions than RECEIPTS_PARALELLISM.
LargeBlock == RECEIPTS_PARALELLISM + 1
\* The importer on an upstream node that answers every request at once with
\* a block of LargeBlock transactions and with their receipts.
NextReceipts ==
    \/ ImporterStart
    \/ ImporterNext
    \/ FetchBlock("block", LargeBlock)
    \/ StartReceipt
    \/ \E i \in 1..LargeBlock : FetchReceipt(i, "receipt")
    \/ TryCollect
    \/ ImportExternal(TRUE)

SpecReceipts == InitImporter /\ [][NextReceipts]_vars

\* ------------------------------------------------------------------------
\* Relayer
\* ------------------------------------------------------------------------
\* Number of relay_next_block calls in one behaviour.
MaxRelays == 3

\* What relayer.relay_next_block() returns: Ok(Some(number)), Ok(None) or Err.
RelayOutcomes == {"Some", "None", "Err"}
\* GlobalState::warn_if_shutdown(TASK_NAME): whether the shutdown signal is set.
warn_if_shutdown(shutdown) == shutdown
\* The variant of the match on relay_next_block that calls it again at once
\* after an error.
match_relay_next_block_retrying(outcome) ==
    CASE outcome = "Err" -> "relaying"
      [] outcome = "Some" -> "loop"
      [] outcome = "None" -> "sleeping"
\* The two matches of the loop body: an error is logged and `continue` goes to
\* the top of the loop; a relayed block is logged; without a pending block
\* the task sleeps the backoff.
match_relay_next_block(outcome) ==
    CASE outcome = "Err" -> "loop"
      [] outcome = "Some" -> "loop"
      [] outcome = "None" -> "sleeping"

\* The top of the loop: return Ok(()) when the shutdown signal is set,
\* otherwise call relay_next_block.
RelayerLoop ==
    /\ process.relayer.pc = "loop"
    /\ IF warn_if_shutdown(process.shutdown)
       THEN process' = [process EXCEPT !.relayer.pc = "returned", !.relayer.result = "Ok"]
       ELSE /\ Len(process.relayer.calls) < MaxRelays
            /\ process' = [process EXCEPT !.relayer.pc = "relaying"]
    /\ UNCHANGED <<importer, headers, dag, waves, backend, state, block_number, pending,
                   failed, cur, calls, seeded, pg, issued>>
\* relay_next_block returns.
RelayNextBlock(outcome) ==
    /\ process.relayer.pc = "relaying"
    /\ Len(process.relayer.calls) < MaxRelays
    /\ process' = [process EXCEPT !.relayer.calls = Append(@, outcome),
                                  !.relayer.pc = match_relay_next_block(outcome)]
    /\ UNCHANGED <<importer, headers, dag, waves, backend, state, block_number, pending,
                   failed, cur, calls, seeded, pg, issued>>
\* tokio::time::sleep(backoff).await ends.
RelayerSleep ==
    /\ process.relayer.pc = "sleeping"
    /\ process' = [process EXCEPT !.relayer.pc = "loop"]
    /\ UNCHANGED <<importer, headers, dag, waves, backend, state, block_number, pending,
                   failed, cur, calls, seeded, pg, issued>>

NextRelayer ==
    \/ RelayerLoop
    \/ \E outcome \in RelayOutcomes : RelayNextBlock(outcome)
    \/ RelayerSleep
    \/ SetShutdown

SpecRelayer == InitImporter /\ [][NextRelayer]_vars

\* ------------------------------------------------------------------------
\* run of run-with-importer
\* ------------------------------------------------------------------------
\* How a spawned task ends: its future returns Ok or an error, or it panics.
TaskOutcomes == {"Ok", "Err", "Panicked"}
\* The variant of try_join! that completes as soon as one task returned an
\* error.
try_join_on_first_error(rpc_task, importer_task) ==
    IF "Panicked" \in {rpc_task, importer_task} THEN "JoinError"
    ELSE IF "Err" \in {rpc_task, importer_task} THEN "Joined"
    ELSE IF "Running" \in {rpc_task, importer_task} THEN "Pending"
    ELSE "Joined"
\* try_join!(rpc_task, importer_task) on two JoinHandles: a handle yields
\* Err(JoinError) only for a task that panicked, and Ok(output) for a task
\* that returned, whatever it returned; the macro completes with the first
\* Err yielded, and otherwise when both handles have yielded.
try_join(rpc_task, importer_task) ==
    IF "Panicked" \in {rpc_task, importer_task} THEN "JoinError"
    ELSE IF "Running" \in {rpc_task, importer_task} THEN "Pending"
    ELSE "Joined"
\* let join_result = try_join!(..)?; join_result.0?; join_result.1?; Ok(())
run(rpc_task, importer_task) ==
    CASE try_join(rpc_task, importer_task) = "Pending" -> "Running"
      [] try_join(rpc_task, importer_task) = "JoinError" -> "JoinError"
      [] OTHER -> IF rpc_task = "Err" THEN "rpc error"
                  ELSE IF importer_task = "Err" THEN "importer error"
                  ELSE "Ok"

\* The task of serve_rpc ends.
RpcTaskEnds(outcome) ==
    /\ process.run = "Running"
    /\ process.rpc_task = "Running"
    /\ process' = [process EXCEPT !.rpc_task = outcome]
    /\ UNCHANGED <<importer, headers, dag, waves, backend, state, block_number, pending,
                   failed, cur, calls, seeded, pg, issued>>
\* The task of run_importer_online ends: with the error its loop exited with,
\* with Ok at the top of its loop once the shutdown signal is set, or by
\* a panic at any point.
ImporterTaskEnds(outcome) ==
    /\ process.run = "Running"
    /\ process.importer_task = "Running"
    /\ CASE outcome = "Err" -> importer.pc = "exited" /\ UNCHANGED importer
         [] outcome = "Ok" ->
               /\ importer.pc = "loop"
               /\ warn_if_shutdown(process.shutdown)
               /\ importer' = [importer EXCEPT !.pc = "exited", !.result = "Ok"]
         [] outcome = "Panicked" ->
               /\ importer.pc # "exited"
               /\ importer' = [importer EXCEPT !.pc = "exited", !.result = "Panicked"]
    /\ process' = [process EXCEPT !.importer_task = outcome]
    /\ UNCHANGED <<headers, dag, waves, backend, state, block_number, pending,
                   failed, cur, calls, seeded, pg, issued>>
\* run returns.
RunReturns ==
    /\ process.run = "Running"
    /\ run(process.rpc_task, process.importer_task) # "Running"
    /\ process' = [process EXCEPT !.run = run(process.rpc_task, process.importer_task)]
    /\ UNCHANGED <<importer, headers, dag, waves, backend, state, block_number, pending,
                   failed, cur, calls, seeded, pg, issued>>

\* The two tasks of run; the importer task imports blocks of one transaction.
NextRun ==
    \/ ImporterStart
    \/ ImporterNext
    \/ \E response \in Responses : FetchBlock(response, 1)
    \/ StartReceipt
    \/ \E response \in ReceiptResponses : FetchReceipt(1, response)
    \/ TryCollect
    \/ \E succeeded \in BOOLEAN : ImportExternal(succeeded)
    \/ SetShutdown
    \/ \E outcome \in TaskOutcomes : RpcTaskEnds(outcome)
    \/ \E outcome \in TaskOutcomes : ImporterTaskEnds(outcome)
    \/ RunReturns

SpecRun == InitImporter /\ [][NextRun]_vars

\* ------------------------------------------------------------------------
\* Block headers
\* ------------------------------------------------------------------------
\* Hash::ZERO and the two special hashes of block mining.
Hash_ZERO == <<"zero", 0>>
HASH_EMPTY_UNCLES == <<"empty_uncles", 0>>
HASH_EMPTY_TRIE == <<"empty_trie", 0>>
\* Address::default() is the zero address; Address::COINBASE is another one.
Address_default == 0
COINBASE == 255
\* UnixTime values given to BlockHeader::new and carried by upstream blocks.
Timestamps == {1234567890, 1234567891}

\* BlockNumber::prev
prev(number) == IF number = 0 THEN None ELSE Some(number - 1)

\* The variant of BlockHeader::new whose hash covers the timestamp too.
BlockHeader_new_hashing_timestamp(number, timestamp) ==
    [number |-> number, hash |-> <<"h", number, timestamp>>,
     transactions_root |-> HASH_EMPTY_TRIE, gas_used |-> 0, gas_limit |-> 0, bloom |-> 0,
     timestamp |-> timestamp,
     parent_hash |-> IF prev(number) = None THEN Hash_ZERO ELSE HashOf(Unwrap(prev(number))),
     author |-> Address_default, extra_data |-> << >>, miner |-> Address_default,
     difficulty |-> 0, receipts_root |-> HASH_EMPTY_TRIE, uncle_hash |-> HASH_EMPTY_UNCLES,
     size |-> 0, state_root |-> HASH_EMPTY_TRIE, total_difficulty |-> 0, nonce |-> 0]

\* BlockHeader::new(number, timestamp)
BlockHeader_new(number, timestamp) ==
    [number |-> number,
     hash |-> HashOf(number),
     transactions_root |-> HASH_EMPTY_TRIE,
     gas_used |-> 0,
     gas_limit |-> 0,
     bloom |-> 0,
     timestamp |-> timestamp,
     parent_hash |-> IF prev(number) = None THEN Hash_ZERO ELSE HashOf(Unwrap(prev(number))),
     author |-> Address_default,
     extra_data |-> << >>,
     miner |-> Address_default,
     difficulty |-> 0,
     receipts_root |-> HASH_EMPTY_TRIE,
     uncle_hash |-> HASH_EMPTY_UNCLES,
     size |-> 0,
     state_root |-> HASH_EMPTY_TRIE,
     total_difficulty |-> 0,
     nonce |-> 0]

\* impl From<BlockHeader> for EthersBlock: the fields of the upstream block
\* that the conversion back reads.
EthersBlock_from(header) ==
    [hash |-> Some(header.hash),
     number |-> Some(header.number),
     uncles_hash |-> HASH_EMPTY_UNCLES,
     parent_hash |-> header.parent_hash,
     timestamp |-> header.timestamp,
     author |-> Some(COINBASE),
     difficulty |-> 0,
     total_difficulty |-> Some(0),
     nonce |-> Some(0),
     gas_limit |-> 100000000,
     gas_used |-> header.gas_used,
     transactions_root |-> header.transactions_root,
     receipts_root |-> HASH_EMPTY_TRIE,
     size |-> Some(header.size),
     logs_bloom |-> Some(header.bloom),
     extra_data |-> << >>,
     state_root |-> header.state_root]

\* impl TryFrom<&ExternalBlock> for BlockHeader, for a block whose gas and
\* size fit 64 bits; number(), hash() and author() read the fields of the
\* upstream block.
BlockHeader_try_from(value) ==
    [number |-> Unwrap(value.number),
     hash |-> Unwrap(value.hash),
     transactions_root |-> value.transactions_root,
     gas_used |-> value.gas_used,
     bloom |-> unwrap_or_default(value.logs_bloom),
     timestamp |-> value.timestamp,
     parent_hash |-> value.parent_hash,
     gas_limit |-> value.gas_limit,
     author |-> unwrap_or_default(value.author),
     extra_data |-> value.extra_data,
     miner |-> unwrap_or_default(value.author),
     difficulty |-> value.difficulty,
     receipts_root |-> value.receipts_root,
     uncle_hash |-> value.uncles_hash,
     size |-> unwrap_or_default(value.size),
     state_root |-> value.state_root,
     total_difficulty |-> unwrap_or_default(value.total_difficulty),
     nonce |-> unwrap_or_default(value.nonce)]

\* Blocks of the upstream chain: mined by some author, with their own hashes,
\* roots, gas limit, size, bloom and extra data.
ExternalBlocks ==
    [hash : {Some(<<"upstream", 1>>)},
     number : {Some(n) : n \in BlockNums},
     uncles_hash : {HASH_EMPTY_UNCLES},
     parent_hash : {<<"upstream", 0>>},
     timestamp : Timestamps,
     author : {None, Some(1)},
     difficulty : {0},
     total_difficulty : {Some(0)},
     nonce : {Some(0)},
     gas_limit : {30000000, 100000000},
     gas_used : {0, 21000},
     transactions_root : {HASH_EMPTY_TRIE, <<"root", 1>>},
     receipts_root : {HASH_EMPTY_TRIE, <<"root", 2>>},
     size : {None, Some(1)},
     logs_bloom : {None, Some(1)},
     extra_data : {<< >>, <<1>>},
     state_root : {HASH_EMPTY_TRIE}]

\* A header is mined locally, or read from a block of the upstream chain.
NewHeader(number, timestamp) ==
    /\ headers.origin = "none"
    /\ headers' = [origin |-> "new", header |-> Some(BlockHeader_new(number, timestamp)),
                   ethers |-> None, restored |-> None]
    /\ UNCHANGED <<process, importer, dag, waves, backend, state, block_number, pending, failed, cur, calls,
                   seeded, pg, issued>>
ImportHeader(value) ==
    /\ headers.origin = "none"
    /\ headers' = [origin |-> "external", header |-> Some(BlockHeader_try_from(value)),
                   ethers |-> None, restored |-> None]
    /\ UNCHANGED <<process, importer, dag, waves, backend, state, block_number, pending, failed, cur, calls,
                   seeded, pg, issued>>
\* The header is converted to the upstream block schema, and read back.
IntoEthersBlock ==
    /\ headers.header # None
    /\ headers.ethers = None
    /\ headers' = [headers EXCEPT !.ethers = Some(EthersBlock_from(Unwrap(headers.header)))]
    /\ UNCHANGED <<process, importer, dag, waves, backend, state, block_number, pending, failed, cur, calls,
                   seeded, pg, issued>>
TryFromExternalBlock ==
    /\ headers.ethers # None
    /\ headers.restored = None
    /\ headers' = [headers EXCEPT !.restored = Some(BlockHeader_try_from(Unwrap(headers.ethers)))]
    /\ UNCHANGED <<process, importer, dag, waves, backend, state, block_number, pending, failed, cur, calls,
                   seeded, pg, issued>>
NextHeader ==
    \/ \E number \in Heights, timestamp \in Timestamps : NewHeader(number, timestamp)
    \/ \E value \in ExternalBlocks : ImportHeader(value)
    \/ IntoEthersBlock
    \/ TryFromExternalBlock

SpecHeader == Init /\ [][NextHeader]_vars

\* ------------------------------------------------------------------------
\* Properties
\* ------------------------------------------------------------------------
\* A step in which a call of save_block returns: its entry is appended to the
\* log of calls (sequential callers) with the given result.
Returned(result) ==
    /\ Len(calls') = Len(calls) + 1
    /\ calls'[Len(calls')].result = result
LastCall == calls[Len(calls)]

\* C3: when save_block returns Conflict the stored state is unchanged, on the
\* embedded backend (the conflicts are collected before any write) and on the
\* SQL backend (the transaction is rolled back).
C3_ConflictLeavesStateUnchanged ==
    [][Returned("Conflict") => /\ state' = state
                               /\ pg' = pg
                               /\ block_number' = block_number]_vars
\* A call has returned Conflict on a store that holds an earlier block.
C3_Witness ==
    /\ Len(calls) = 2
    /\ calls[1].result = "Ok"
    /\ calls[2].result = "Conflict"
    /\ calls[2].conflicts # {}

\* PermanentStorage::maybe_read_account and maybe_read_slot of the backend in use.
maybe_read_account(address, point_in_time) ==
    IF backend = "rocks" THEN read_account(state, address, point_in_time)
    ELSE pg_read_account(pg, address, point_in_time)
maybe_read_slot(address, slot_index, point_in_time) ==
    IF backend = "rocks" THEN read_slot(state, address, slot_index, point_in_time)
    ELSE pg_read_slot(pg, address, slot_index, point_in_time)

\* The block carries an original value that differs from the value stored
\* (a value with no stored counterpart differs from it).
CarriesStaleOriginal(block) ==
    \E k \in DOMAIN compact_account_changes(block) :
        LET change == compact_account_changes(block)[k]
            account == maybe_read_account(change.address, Present)
        IN \/ /\ IsSome(change.nonce.original)
              /\ (account = None \/ Unwrap(account).nonce # Unwrap(change.nonce.original))
           \/ /\ IsSome(change.balance.original)
              /\ (account = None \/ Unwrap(account).balance # Unwrap(change.balance.original))
           \/ \E i \in SlotIdx :
                 /\ IsSome(change.slots[i])
                 /\ IsSome(Unwrap(change.slots[i]).original)
                 /\ maybe_read_slot(change.address, i, Present) # Unwrap(change.slots[i]).original

\* C5: save_block reports no Conflict when every original value the block
\* carries equals the value stored: a call that returns Conflict was given a
\* block carrying an original that differs from the stored value.
C5_NoConflictWithoutStaleOriginal ==
    [][Returned("Conflict") => CarriesStaleOriginal(calls'[Len(calls')].block)]_vars

\* The block modifies a value whose original it carries.
ModifiesCarriedOriginal(block) ==
    \E k \in DOMAIN compact_account_changes(block) :
        LET change == compact_account_changes(block)[k]
        IN \/ IsSome(change.nonce.original) /\ is_modified(change.nonce)
           \/ IsSome(change.balance.original) /\ is_modified(change.balance)
           \/ \E i \in SlotIdx : /\ IsSome(change.slots[i])
                                 /\ IsSome(Unwrap(change.slots[i]).original)
                                 /\ is_modified(Unwrap(change.slots[i]))
\* A step in which the block of the latest call, which succeeded, is given to
\* save_block again.
Resubmitted ==
    /\ calls # << >>
    /\ LastCall.result = "Ok"
    /\ Len(calls') = Len(calls) + 1
    /\ calls'[Len(calls')].block = LastCall.block

\* C8 as stated: a block resubmitted with identical original values succeeds
\* and leaves the stored state as it was after the first call.
C8_ResubmissionSucceeds ==
    [][Resubmitted => /\ calls'[Len(calls')].result = "Ok"
                      /\ state' = state
                      /\ pg' = pg]_vars
\* C8 amended: a resubmitted block leaves the stored state as it was after the
\* first call, and the resubmission fails with Conflict whenever the block
\* modifies a value whose original it carries.
C8_ResubmissionKeepsState ==
    [][Resubmitted => /\ state' = state
                      /\ pg' = pg
                      /\ (ModifiesCarriedOriginal(LastCall.block)
                            => calls'[Len(calls')].result = "Conflict")]_vars
\* A block that modifies a value whose original it carries was saved and then
\* resubmitted.
C8_Witness ==
    /\ Len(calls) = 2
    /\ calls[1].result = "Ok"
    /\ calls[2].block = calls[1].block
    /\ ModifiesCarriedOriginal(calls[1].block)
    /\ calls[2].result = "Conflict"

\* The calls of save_block that succeeded, and what their blocks wrote.
OkCalls == {i \in DOMAIN calls : calls[i].result = "Ok"}
ChangesOfCall(i) == compact_account_changes(calls[i].block)
WritesAccount(i, a) == a \in Touched(ChangesOfCall(i))
Field(r, f) == IF f = "nonce" THEN r.nonce ELSE r.balance
ModifiesField(i, a, f) ==
    WritesAccount(i, a) /\ IsSome(Field(ChangeOf(ChangesOfCall(i), a), f).modified)
FieldWritten(i, a, f) == Unwrap(Field(ChangeOf(ChangesOfCall(i), a), f).modified)
\* Of the calls S, the one of the highest block, the latest of them.
Top(S) ==
    CHOOSE i \in S : \A j \in S :
        \/ calls[j].block.number < calls[i].block.number
        \/ calls[j].block.number = calls[i].block.number /\ j <= i
IsSeeded(a) == \E k \in DOMAIN seeded : seeded[k].address = a
SeedOf(a) ==
    LET account == seeded[CHOOSE k \in DOMAIN seeded : seeded[k].address = a]
    IN [nonce |-> account.nonce, balance |-> account.balance,
        bytecode |-> account.bytecode, code_hash |-> account.code_hash]

WritesSlot(i, a, x) == SlotWritten(ChangesOfCall(i), a, x)

SamePreImage(i, j) ==
    \E a \in Addr :
        /\ WritesAccount(i, a) /\ WritesAccount(j, a)
        /\ LET ci == ChangeOf(ChangesOfCall(i), a)
               cj == ChangeOf(ChangesOfCall(j), a)
           IN \/ \E f \in {"nonce", "balance"} :
                    /\ IsSome(Field(ci, f).original)
                    /\ Field(ci, f).original = Field(cj, f).original
                    /\ is_modified(Field(ci, f)) /\ is_modified(Field(cj, f))
              \/ \E x \in SlotIdx :
                    /\ IsSome(ci.slots[x]) /\ IsSome(cj.slots[x])
                    /\ IsSome(Unwrap(ci.slots[x]).original)
                    /\ Unwrap(ci.slots[x]).original = Unwrap(cj.slots[x]).original
                    /\ is_modified(Unwrap(ci.slots[x])) /\ is_modified(Unwrap(cj.slots[x]))

\* C1: of two writers that start from the same pre-image and both call
\* save_block, exactly one succeeds and the other fails with Conflict.
C1_ExactlyOneWriterSucceeds ==
    \A i, j \in DOMAIN calls :
        (i < j /\ SamePreImage(i, j) /\ calls[i].result # "Pending" /\ calls[j].result # "Pending")
            => \/ calls[i].result = "Ok" /\ calls[j].result = "Conflict"
               \/ calls[i].result = "Conflict" /\ calls[j].result = "Ok"

\* C2: a reader sees all or none of the writes of a block: the block is found
\* by its number exactly when it is found by its hash and its transaction is
\* found in the index.
C2_AllOrNoneVisible ==
    \A n \in BlockNums :
        /\ IsSome(read_block_by_number(state, n)) <=> IsSome(state.blocks_by_hash[HashOf(n)])
        /\ IsSome(read_block_by_number(state, n)) <=> IsSome(state.transactions[TxHashOf(n)])

\* The block carries an original that differs from the value the embedded
\* store holds for the nonce, the balance or the slot.
DiffersFromStored(block) ==
    \E k \in DOMAIN compact_account_changes(block) :
        LET change == compact_account_changes(block)[k]
            account == state.accounts[change.address]
        IN \/ /\ IsSome(change.nonce.original) /\ IsSome(account)
              /\ Unwrap(account).nonce # Unwrap(change.nonce.original)
           \/ /\ IsSome(change.balance.original) /\ IsSome(account)
              /\ Unwrap(account).balance # Unwrap(change.balance.original)
           \/ \E x \in SlotIdx :
                 /\ IsSome(change.slots[x])
                 /\ IsSome(Unwrap(change.slots[x]).original)
                 /\ IsSome(state.account_slots[<<change.address, x>>])
                 /\ state.account_slots[<<change.address, x>>] # Unwrap(change.slots[x]).original

\* C4: the embedded save_block fails with Conflict whenever a change carries an
\* original nonce, balance or slot value that differs from the stored one.
C4_StaleOriginalConflicts ==
    [][(Len(calls') = Len(calls) + 1 /\ DiffersFromStored(calls'[Len(calls')].block))
          => calls'[Len(calls')].result = "Conflict"]_vars

\* The calls were made in the order of their block numbers.
Ascending == \A i, j \in DOMAIN calls : i < j => calls[i].block.number < calls[j].block.number

\* C6: once a block is committed, the Past(number) read of an account it
\* touched gives the block's post-image and the Past(number - 1) read its
\* pre-image, also after higher blocks were saved.
C6_PastReadsGivePostAndPreImage ==
    Ascending =>
      \A i \in OkCalls, a \in Addr, f \in {"nonce", "balance"} :
        ModifiesField(i, a, f) =>
          LET number == calls[i].block.number
              vc == Field(ChangeOf(ChangesOfCall(i), a), f)
              post == read_account(state, a, Past(number))
              pre == read_account(state, a, Past(number - 1))
          IN /\ post # None /\ Field(Unwrap(post), f) = Unwrap(vc.modified)
             /\ (IsSome(vc.original) /\ IsSeeded(a))
                   => pre # None /\ Field(Unwrap(pre), f) = Unwrap(vc.original)

\* C9: the embedded save_block returns Ok only if every write batch
\* succeeded.
C9_OkOnlyIfEveryBatchSucceeded ==
    \A w \in W :
        (cur[w] = 0 /\ calls # << >> /\ LastCall.writer = w /\ LastCall.result = "Ok")
            => failed[w] = {}

\* C10: calls of increment_block_number return distinct consecutive values,
\* and a read that follows returns the last value handed out.
C10_IncrementsAreConsecutive ==
    \A k \in DOMAIN issued :
        (k > 1 /\ issued[k - 1].op = "increment")
            => /\ issued[k].op = "increment" => issued[k].result = issued[k - 1].result + 1
               /\ issued[k].op = "read" => issued[k].result = issued[k - 1].result

\* The block number the storage reports: the counter of the embedded backend,
\* the current block number of the database.
CurrentBlockNumber ==
    IF backend = "rocks" THEN block_number ELSE select_current_block_number(pg)
\* A step in which a block number operation returns: its entry is appended to
\* the log.
Issued(op) ==
    /\ Len(issued') = Len(issued) + 1
    /\ issued'[Len(issued')].op = op

\* C11: set_mined_block_number(n) fails and leaves the counter unchanged when n
\* is lower than the current number; otherwise it sets the counter to n, so
\* the counter never decreases through this operation.
C11_SetIsMonotone ==
    [][Issued("set") =>
          LET n == issued'[Len(issued')].arg
          IN IF n < CurrentBlockNumber
             THEN /\ issued'[Len(issued')].result # "Ok"
                  /\ CurrentBlockNumber' = CurrentBlockNumber
             ELSE CurrentBlockNumber' = n]_vars

\* The highest block number committed by a successful save_block, 0 when no
\* block was committed.
HighestCommitted ==
    IF OkCalls = {} THEN 0 ELSE Max({calls[i].block.number : i \in OkCalls})

\* C12: read_mined_block_number returns the highest block number committed so
\* far, and 0 when no block has been committed.
C12_ReadReturnsHighestCommitted ==
    [][Issued("read") => issued'[Len(issued')].result = HighestCommitted]_vars

LastIssued == issued[Len(issued)]
ResetIssued(n) == Issued("reset") /\ issued'[Len(issued')].arg = n
RowsAbove(n) ==
    IF backend = "rocks"
    THEN \/ \E k \in Addr \X Heights : k[2] > n /\ IsSome(state.accounts_history[k])
         \/ \E k \in Addr \X SlotIdx \X Heights : k[3] > n /\ IsSome(state.account_slots_history[k])
         \/ \E b \in BlockNums : b > n /\ IsSome(state.blocks_by_number[b])
         \/ \E h \in Hashes : IsSome(state.blocks_by_hash[h]) /\ Unwrap(state.blocks_by_hash[h]) > n
         \/ \E h \in TxHashes : IsSome(state.transactions[h]) /\ Unwrap(state.transactions[h]) > n
         \/ \E k \in TxHashes \X LogIdx : IsSome(state.logs[k]) /\ Unwrap(state.logs[k]) > n
    ELSE \/ \E k \in Addr \X Heights : k[2] > n /\ IsSome(pg.historical_nonces[k])
         \/ \E k \in Addr \X Heights : k[2] > n /\ IsSome(pg.historical_balances[k])
         \/ \E k \in Addr \X SlotIdx \X Heights : k[3] > n /\ IsSome(pg.historical_slots[k])
         \/ \E b \in BlockNums : b > n /\ IsSome(pg.blocks[b])
         \/ \E h \in TxHashes : IsSome(pg.transactions[h]) /\ Unwrap(pg.transactions[h]) > n
         \/ \E k \in TxHashes \X LogIdx : IsSome(pg.logs[k]) /\ Unwrap(pg.logs[k]) > n

\* C13: reset_at(n) is idempotent: in the state a reset_at(n) leaves, a second
\* reset_at(n) changes neither the counter, nor the latest projections, nor
\* the history, nor the stored blocks.
C13_ResetIsIdempotent ==
    [][Issued("reset") =>
          LET n == issued'[Len(issued')].arg
          IN IF backend = "rocks"
             THEN /\ reset_block_number(block_number', n) = block_number'
                  /\ state_reset_at(state', n) = state'
             ELSE update_account_slots_reset_value(
                     update_account_reset_nonce(
                        update_account_reset_balance(delete_after_block(pg', n)))) = pg']_vars
\* A reset removed a committed block, the counter of the embedded backend
\* being above the number, and was applied a second time.
C13_Witness ==
    /\ Len(issued) >= 2
    /\ LastIssued.op = "reset"
    /\ issued[Len(issued) - 1].op = "reset"
    /\ issued[Len(issued) - 1].arg = LastIssued.arg
    /\ \E i \in OkCalls : calls[i].block.number > LastIssued.arg
    /\ ~RowsAbove(LastIssued.arg)
    /\ HighestStored <= LastIssued.arg

\* C14 as stated: after reset_at(n), every read of an account or of a slot at
\* Past(k) with k > n returns None.
C14_PastReadsAboveResetAreNone ==
    [][\A n \in Heights : ResetIssued(n) =>
          \A k \in Heights : k > n =>
             /\ \A a \in Addr : maybe_read_account(a, Past(k))' = None
             /\ \A a \in Addr, x \in SlotIdx : maybe_read_slot(a, x, Past(k))' = None]_vars
\* C14: after reset_at(n), a read of an account or of a slot at Past(k) with
\* k > n returns what the read at Past(n) returned before the reset, and still
\* returns: nothing written above n is visible, and a key written at or below
\* n is still read.
C14_PastReadsAboveResetReadAtReset ==
    [][\A n \in Heights : ResetIssued(n) =>
             \A k \in Heights : k > n =>
                /\ \A a \in Addr :
                      /\ maybe_read_account(a, Past(k))' = maybe_read_account(a, Past(n))
                      /\ maybe_read_account(a, Past(n))' = maybe_read_account(a, Past(n))
                /\ \A a \in Addr, x \in SlotIdx :
                      /\ maybe_read_slot(a, x, Past(k))' = maybe_read_slot(a, x, Past(n))
                      /\ maybe_read_slot(a, x, Past(n))' = maybe_read_slot(a, x, Past(n))]_vars
\* A reset to n was applied to a store whose reads above n differed from the
\* read at n, and a key written at or below n is still read above n.
C14_Witness ==
    /\ Len(issued) >= 1
    /\ LastIssued.op = "reset"
    /\ LastIssued.arg < MaxBlock
    /\ \E i \in OkCalls : calls[i].block.number > LastIssued.arg
    /\ HighestStored <= LastIssued.arg
    /\ \E a \in Addr : maybe_read_account(a, Past(MaxBlock)) # None

C16_SeededAccountsAreRead ==
    [][\A account \in Accounts :
          (seeded = << >> /\ \E k \in DOMAIN seeded' : seeded'[k] = account) =>
             LET info == [nonce |-> account.nonce, balance |-> account.balance,
                          bytecode |-> account.bytecode, code_hash |-> account.code_hash]
             IN /\ maybe_read_account(account.address, Present)' = Some(info)
                /\ maybe_read_account(account.address, Past(0))' = Some(info)]_vars
\* Two accounts were saved, one of them with bytecode, and both are read at
\* block 0.
C16_Witness ==
    /\ Len(seeded) = 2
    /\ \E k \in DOMAIN seeded : seeded[k].bytecode # None /\ seeded[k].balance = MaxVal
    /\ \A k \in DOMAIN seeded :
          /\ maybe_read_account(seeded[k].address, Past(0)) # None
          /\ Unwrap(maybe_read_account(seeded[k].address, Past(0))).bytecode = seeded[k].bytecode

\* BlockSelection
Latest == <<"Latest">>
Number(n) == <<"Number", n>>
Hash(h) == <<"Hash", h>>

\* RocksStorageState::read_block: the latest block is the block of the highest
\* number stored.
state_read_block(st, selection) ==
    CASE selection = Latest ->
            IF \E n \in BlockNums : IsSome(st.blocks_by_number[n])
            THEN st.blocks_by_number[Max({n \in BlockNums : IsSome(st.blocks_by_number[n])})]
            ELSE None
      [] selection[1] = "Number" -> read_block_by_number(st, selection[2])
      [] selection[1] = "Hash" -> read_block_by_hash(st, selection[2])

\* select_block_header_by_number.sql, select_transactions_by_block_number.sql
\* and select_logs_by_block_number.sql: the block built from the header row,
\* the transaction rows and the log rows of the number; None with no header.
select_block_by_number(db, n) ==
    IF n \in Heights /\ IsSome(db.blocks[n])
    THEN Some([number |-> n, hash |-> Unwrap(db.blocks[n]),
               transactions |-> {h \in TxHashes : db.transactions[h] = Some(n)},
               logs |-> {k \in TxHashes \X LogIdx : db.logs[k] = Some(n)}])
    ELSE None
\* PostgresPermanentStorage::read_block: Latest reads the block of
\* read_mined_block_number, Hash the block whose header holds the hash.
pg_read_block(db, selection) ==
    CASE selection = Latest -> select_block_by_number(db, select_current_block_number(db))
      [] selection[1] = "Number" -> select_block_by_number(db, selection[2])
      [] selection[1] = "Hash" ->
            IF \E n \in Heights : db.blocks[n] = Some(selection[2])
            THEN select_block_by_number(db, CHOOSE n \in Heights : db.blocks[n] = Some(selection[2]))
            ELSE None
\* PostgresPermanentStorage::read_block, BlockSelection::Earliest: the rows
\* of block 0 are queried as for Number(0), but the logs of every transaction
\* are taken with unwrap(), which panics for a transaction without a log row.
\* (The topics are taken with unwrap() too; topic rows are not modelled.)
pg_read_block_earliest(db) ==
    IF select_block_by_number(db, 0) = None
    THEN [outcome |-> "Ok", block |-> None]
    ELSE IF \E h \in Unwrap(select_block_by_number(db, 0)).transactions :
               ~ \E k \in Unwrap(select_block_by_number(db, 0)).logs : k[1] = h
         THEN [outcome |-> "Panic", block |-> None]
         ELSE [outcome |-> "Ok", block |-> select_block_by_number(db, 0)]
read_block(selection) ==
    IF backend = "rocks" THEN state_read_block(state, selection) ELSE pg_read_block(pg, selection)

\* C17: for every block B whose save_block returned Ok, read_block(Number(B.number))
\* and read_block(Hash(B.hash)) return the same block, and read_block(Latest)
\* returns it too when B is the latest committed block.
C17_ReadBlockSelectionsAgree ==
    \A i \in OkCalls :
       LET B == calls[i].block
       IN /\ read_block(Number(B.number)) # None
          /\ read_block(Number(B.number)) = read_block(Hash(B.hash))
          /\ B.number = HighestCommitted => read_block(Latest) = read_block(Number(B.number))

\* C18: given the same starting state and the same sequence of save_block
\* calls, the SQL backend accepts the blocks the embedded backend accepts and
\* rejects with Conflict the blocks it rejects.
C18_BackendsAgree ==
    \A i \in DOMAIN calls : i \in DOMAIN issued => issued[i].result = calls[i].result

\* The transactions returned so far, in the order returned.
RECURSIVE Flatten(_)
Flatten(results) ==
    IF results = << >> THEN << >>
    ELSE (IF IsSome(Head(results)) THEN Unwrap(Head(results)) ELSE << >>) \o Flatten(Tail(results))
Returned_txs == Flatten(waves)
InputIndexes == {tx.transaction_index : tx \in dag.txs}
\* C19: repeated take_roots() calls return None after at most one call per
\* transaction plus one, and nothing but None after that; the waves returned
\* before hold every input transaction exactly once.
C19_WavesArePermutation ==
    /\ \A k \in DOMAIN Returned_txs : Returned_txs[k] \in InputIndexes
    /\ \A k, l \in DOMAIN Returned_txs : Returned_txs[k] = Returned_txs[l] => k = l
    /\ \A k \in DOMAIN waves :
          waves[k] = None =>
             /\ {Returned_txs[l] : l \in DOMAIN Returned_txs} = InputIndexes
             /\ \A l \in DOMAIN waves : l > k => waves[l] = None
    /\ \A k \in DOMAIN waves : k > Cardinality(InputIndexes) => waves[k] = None
    /\ \A k \in DOMAIN waves : waves[k] # None => Unwrap(waves[k]) # << >>
\* Three transactions were returned in two waves or more, and None after them.
C19_Witness ==
    /\ Cardinality(InputIndexes) = MaxTxs
    /\ Len(waves) >= 3
    /\ waves[1] # None /\ waves[2] # None
    /\ waves[Len(waves)] = None
    /\ Len(Returned_txs) = MaxTxs

\* Two transactions conflict: they modify one slot of one address, or they
\* both modify the balance of one address.
Conflicting(tx1, tx2) ==
    \E k \in DOMAIN tx1.changes, l \in DOMAIN tx2.changes :
       /\ tx1.changes[k].address = tx2.changes[l].address
       /\ \/ is_modified(tx1.changes[k].balance) /\ is_modified(tx2.changes[l].balance)
          \/ \E idx \in (DOMAIN tx1.changes[k].slots) \cap (DOMAIN tx2.changes[l].slots) :
                /\ IsSome(tx1.changes[k].slots[idx]) /\ is_modified(Unwrap(tx1.changes[k].slots[idx]))
                /\ IsSome(tx2.changes[l].slots[idx]) /\ is_modified(Unwrap(tx2.changes[l].slots[idx]))
IsReturned(index) == \E k \in DOMAIN waves : waves[k] # None /\ \E l \in DOMAIN Unwrap(waves[k]) : Unwrap(waves[k])[l] = index
WaveOf(index) ==
    CHOOSE k \in DOMAIN waves : waves[k] # None /\ \E l \in DOMAIN Unwrap(waves[k]) : Unwrap(waves[k])[l] = index
\* C20: of two conflicting transactions, the one of the lower
\* transaction_index is returned in a strictly earlier wave than the other;
\* no wave holds two conflicting transactions.
C20_ConflictsAreOrdered ==
    \A tx1, tx2 \in dag.txs :
       (tx1.transaction_index < tx2.transaction_index /\ Conflicting(tx1, tx2)
          /\ IsReturned(tx2.transaction_index))
       => /\ IsReturned(tx1.transaction_index)
          /\ WaveOf(tx1.transaction_index) < WaveOf(tx2.transaction_index)
\* Two transactions that modify one balance and two that modify one slot were
\* returned in different waves.
C20_Witness ==
    /\ \E tx1, tx2 \in dag.txs :
          /\ balance_conflicts(tx1) \cap balance_conflicts(tx2) # {}
          /\ IsReturned(tx1.transaction_index) /\ IsReturned(tx2.transaction_index)
          /\ WaveOf(tx1.transaction_index) < WaveOf(tx2.transaction_index)
    /\ \E tx1, tx2 \in dag.txs :
          /\ slot_conflicts(tx1) \cap slot_conflicts(tx2) # {}
          /\ IsReturned(tx1.transaction_index) /\ IsReturned(tx2.transaction_index)
          /\ WaveOf(tx1.transaction_index) < WaveOf(tx2.transaction_index)

\* The transaction of an index, and the indexes of a wave.
TxAt(index) == CHOOSE tx \in dag.txs : tx.transaction_index = index
IndexesOf(result) == {Unwrap(result)[k] : k \in DOMAIN Unwrap(result)}
\* A value change is modified: its modified value is set and is not the original.
Modifies(vc) == vc.modified # None /\ vc.modified # vc.original
\* Two transactions share a modified (address, slot index), or both modify
\* the balance of one address.
SharesModified(tx1, tx2) ==
    \E k \in DOMAIN tx1.changes, l \in DOMAIN tx2.changes :
       /\ tx1.changes[k].address = tx2.changes[l].address
       /\ \/ Modifies(tx1.changes[k].balance) /\ Modifies(tx2.changes[l].balance)
          \/ \E idx \in (DOMAIN tx1.changes[k].slots) \cap (DOMAIN tx2.changes[l].slots) :
                /\ tx1.changes[k].slots[idx] # None /\ tx2.changes[l].slots[idx] # None
                /\ Modifies(Unwrap(tx1.changes[k].slots[idx]))
                /\ Modifies(Unwrap(tx2.changes[l].slots[idx]))
\* C21: the graph built by TransactionDag::new has an edge between two
\* transactions exactly when they share a modified (address, slot index) or
\* both modify the balance of one address, and every edge goes from the lower
\* to the higher transaction_index; a value change that is not modified
\* (modified unset, or equal to original) makes no edge.
C21_EdgesAreConflicts ==
    waves = << >> =>
       /\ dag.edges \subseteq InputIndexes \X InputIndexes
       /\ \A e \in dag.edges : e[1] < e[2]
       /\ \A tx1, tx2 \in dag.txs :
             tx1.transaction_index < tx2.transaction_index =>
                (<<tx1.transaction_index, tx2.transaction_index>> \in dag.edges
                   <=> SharesModified(tx1, tx2))
\* A graph just built of three transactions: two that modify one balance are
\* joined, and one that writes a balance back unchanged is joined to neither.
C21_Witness ==
    /\ waves = << >>
    /\ Cardinality(dag.txs) = MaxTxs
    /\ Cardinality(dag.edges) = 1
    /\ \E tx \in dag.txs :
          /\ tx.changes = <<Refund>>
          /\ \A e \in dag.edges : tx.transaction_index \notin {e[1], e[2]}
    /\ \E tx1, tx2 \in dag.txs :
          /\ <<tx1.transaction_index, tx2.transaction_index>> \in dag.edges
          /\ Modifies(tx1.changes[1].balance) /\ Modifies(tx2.changes[1].balance)

\* C22: a take_roots() call returns exactly the transactions without an
\* incoming edge at the time of the call, and removes them and their outgoing
\* edges from the graph; it returns None exactly when the graph has no node.
C22_TakeRootsReturnsSources ==
    [][Len(waves') = Len(waves) + 1 =>
          LET sources == {i \in dag.nodes : ~ \E e \in dag.edges : e[2] = i}
              result == waves'[Len(waves')]
          IN /\ (result = None) <=> (dag.nodes = {})
             /\ result # None =>
                   /\ IndexesOf(result) = sources
                   /\ Len(Unwrap(result)) = Cardinality(sources)
             /\ dag'.nodes = dag.nodes \ sources
             /\ dag'.edges = {e \in dag.edges : e[1] \notin sources}
             /\ dag'.txs = dag.txs
             /\ \A k \in DOMAIN waves : waves'[k] = waves[k]]_vars
\* Two waves were taken and a transaction that waited for both is left, now
\* without an incoming edge.
C22_Witness ==
    /\ Len(waves) = 2
    /\ waves[1] # None /\ waves[2] # None
    /\ dag.nodes # {}
    /\ dag.edges = {}
    /\ \E tx \in dag.txs :
          /\ tx.transaction_index \in dag.nodes
          /\ \E o \in dag.txs : o.transaction_index \in IndexesOf(waves[2]) /\ SharesModified(o, tx)

\* The lower-indexed transactions a transaction conflicts with.
DependenciesOf(tx) ==
    {o \in dag.txs : o.transaction_index < tx.transaction_index /\ SharesModified(o, tx)}
\* C23: a transaction returned in a wave other than the first conflicts with
\* a lower-indexed transaction of the wave just before; the wave of a
\* transaction is one more than the highest wave of the lower-indexed
\* transactions it conflicts with (the first wave when there is none).
C23_EarliestWave ==
    /\ \A k \in DOMAIN waves :
          (k > 1 /\ waves[k] # None) =>
             /\ waves[k - 1] # None
             /\ \A index \in IndexesOf(waves[k]) :
                   \E o \in DependenciesOf(TxAt(index)) :
                      o.transaction_index \in IndexesOf(waves[k - 1])
    /\ \A tx \in dag.txs :
          IsReturned(tx.transaction_index) =>
             /\ \A o \in DependenciesOf(tx) : IsReturned(o.transaction_index)
             /\ WaveOf(tx.transaction_index) =
                   1 + Max({0} \cup {WaveOf(o.transaction_index) : o \in DependenciesOf(tx)})
\* Of three transactions, the last conflicts with the first and not with the
\* second, which conflicts with neither: the last is returned in the second
\* wave, after the other two were returned in the first.
C23_Witness ==
    /\ Cardinality(dag.txs) = MaxTxs
    /\ Len(waves) = 2 /\ waves[2] # None
    /\ Cardinality(IndexesOf(waves[1])) = MaxTxs - 1
    /\ IndexesOf(waves[2]) = {MaxTxs - 1}
    /\ Cardinality(DependenciesOf(TxAt(MaxTxs - 1))) = 1

\* The waves returned so far are those expected, and None after them.
WavesAre(expected) ==
    \A k \in DOMAIN waves :
       IF k <= Len(expected)
       THEN waves[k] # None /\ IndexesOf(waves[k]) = expected[k]
                            /\ Len(Unwrap(waves[k])) = Cardinality(expected[k])
       ELSE waves[k] = None
\* C24: for the three inputs of test_compute_tx_dag_and_take_roots the
\* successive take_roots() waves are the expected ones, as sets of
\* transaction indexes in wave order, and None after them.
C24_PinnedWaves ==
    \A t \in DOMAIN tests :
       dag.txs = PinnedTxs(tests[t]) => WavesAre(expected_results[t])
\* The third input gave its seven waves and then None.
C24_Witness ==
    /\ dag.txs = PinnedTxs(tests[3])
    /\ Len(waves) = Len(expected_results[3]) + 1
    /\ waves[Len(waves)] = None
    /\ IndexesOf(waves[Len(expected_results[3])]) = {9}

\* A step in which the importer requests a block, and one in which
\* import_external returns Ok.
Requested == Len(importer'.requests) = Len(importer.requests) + 1
Imported == Len(importer'.imported) = Len(importer.imported) + 1
LastRequest == importer.requests[Len(importer.requests)]
\* C25: the importer starts at the mined block number plus one and imports
\* the blocks in consecutive number order: the block requested is the one
\* after the last imported one (after the mined number read at the start when
\* none was imported), and the block imported is the one just fetched, so no
\* number is skipped or imported twice.
C25_ImportsInOrder ==
    [][/\ (importer.pc = "main" /\ importer'.pc # "main") =>
             /\ importer'.start = read_current_block_number
             /\ importer'.number = importer'.start
       /\ Requested =>
             LastRequest'.number = importer.start + Len(importer.imported) + 1
       /\ Imported =>
             /\ importer'.imported[Len(importer'.imported)]
                   = importer.start + Len(importer.imported) + 1
             /\ LastRequest.number = importer.start + Len(importer.imported) + 1
             /\ LastRequest.response = "block"
       /\ importer.pc # "main" => importer'.start = importer.start]_vars
\* Started on a storage whose mined number is not 0, the importer imported
\* MaxImports blocks, one of them after a request that was retried.
C25_Witness ==
    /\ importer.start > 0
    /\ Len(importer.imported) = MaxImports
    /\ importer.imported[MaxImports] = importer.start + MaxImports
    /\ Len(importer.requests) > MaxImports

\* C30: fetch_block does not give up on a transport error or on null: it
\* requests the same number again, and main is still running; it returns an
\* error only for a response that is not null and fails to deserialize
\* (builds without the perf feature).
C30_FetchBlockRetries ==
    [][importer.pc = "fetch_block" /\ importer' # importer =>
          /\ Requested
          /\ LastRequest'.number = importer.number
          /\ importer'.number = importer.number
          /\ importer'.imported = importer.imported
          /\ LastRequest'.response \in {"Err", "null"} =>
                importer'.pc = "fetch_block" /\ importer'.result = "Running"
          /\ LastRequest'.response = "block" =>
                importer'.pc = "fetch_receipts" /\ importer'.result = "Running"
          /\ importer'.pc = "exited" <=> LastRequest'.response = "malformed"]_vars
\* One number was requested three times: a transport error, null, the block.
C30_Witness ==
    /\ importer.pc = "fetch_receipts"
    /\ Len(importer.requests) = 3
    /\ importer.requests[1].response = "Err"
    /\ importer.requests[2].response = "null"
    /\ importer.requests[3].response = "block"
    /\ \A k \in DOMAIN importer.requests : importer.requests[k].number = importer.number

\* C26: the parent hash of BlockHeader::new(N, t) is the hash of
\* BlockHeader::new(N - 1, t') for every t' when N > 0, and the zero hash when
\* N = 0; the hash is number.hash(), the same for every timestamp.
C26_ParentHashIsPreviousHash ==
    headers.origin = "new" =>
       LET header == Unwrap(headers.header)
       IN /\ header.hash = HashOf(header.number)
          /\ \A t \in Timestamps : BlockHeader_new(header.number, t).hash = header.hash
          /\ header.number > 0 =>
                \A t \in Timestamps :
                   header.parent_hash = BlockHeader_new(header.number - 1, t).hash
          /\ header.number = 0 => header.parent_hash = Hash_ZERO
\* The header of the highest block number was built, whose parent is not the
\* genesis block.
C26_Witness ==
    /\ headers.origin = "new"
    /\ Unwrap(headers.header).number = MaxBlock
    /\ Unwrap(headers.header).parent_hash = HashOf(MaxBlock - 1)
    /\ Unwrap(headers.header).parent_hash # Hash_ZERO

\* C27: a header created by BlockHeader::new has gas_limit = 100_000_000.
C27_NewHeaderGasLimit ==
    headers.origin = "new" => Unwrap(headers.header).gas_limit = 100000000

\* The fields of a header other than the constant sentinels (uncle hash,
\* difficulty, total difficulty, nonce).
SignificantFields ==
    {"number", "hash", "parent_hash", "timestamp", "gas_used", "gas_limit",
     "transactions_root", "receipts_root", "state_root", "author", "miner", "extra_data",
     "size", "bloom"}
\* C28: a header converted to the upstream block schema and back equals the
\* original on every field that is not a constant sentinel.
C28_RoundTripPreserves ==
    headers.restored # None =>
       \A field \in SignificantFields :
          Unwrap(headers.restored)[field] = Unwrap(headers.header)[field]

\* The originals a change carries for a row that is stored all equal the
\* stored values: an address without a latest account row is not looked at,
\* and neither is a slot without a latest value.
NothingStoredDiffers(st, change) ==
    \/ st.accounts[change.address] = None
    \/ /\ change.nonce.original \in {None, Some(Unwrap(st.accounts[change.address]).nonce)}
       /\ change.balance.original \in {None, Some(Unwrap(st.accounts[change.address]).balance)}
       /\ \A i \in DOMAIN change.slots :
             \/ change.slots[i] = None
             \/ st.account_slots[<<change.address, i>>] = None
             \/ Unwrap(change.slots[i]).original \in {None, st.account_slots[<<change.address, i>>]}
\* C29: the embedded check_conflicts reports no conflict for a change whose
\* address has no latest account row (for its nonce, its balance or any of its
\* slots, stored or not), and none for a slot without a stored latest value,
\* whatever originals the change carries; a block of such changes is saved.
C29_AbsentRowsNeverConflict ==
    [][Len(calls') = Len(calls) + 1 =>
          LET call == calls'[Len(calls')]
              account_changes == compact_account_changes(call.block)
          IN /\ \A c \in call.conflicts :
                   /\ state.accounts[c.address] # None
                   /\ c.kind = "Slot" => state.account_slots[<<c.address, c.slot>>] # None
             /\ (\A k \in DOMAIN account_changes : NothingStoredDiffers(state, account_changes[k]))
                   => call.result = "Ok" /\ call.conflicts = {}]_vars
\* A slot was stored while its account row was lost, and a block that carries
\* another original for that slot was saved after it.
C29_Witness ==
    /\ Len(calls) = 2
    /\ calls[1].result = "Ok" /\ calls[2].result = "Ok"
    /\ calls[1].block.transactions[1].changes = <<Store(MaxVal)>>
    /\ calls[2].block.transactions[1].changes = <<Overwrite(0)>>
    /\ state.accounts["a2"] = None
    /\ \A i \in SlotIdx :
          state.account_slots_history[<<"a2", i, calls[1].block.number>>] # None

\* The step answers one request for a receipt.
ReceiptAnswered == importer'.receipt_requests = importer.receipt_requests + 1
\* The step answers one request for a block.
BlockAnswered == Len(importer'.requests) = Len(importer.requests) + 1

\* C31: fetch_receipt never gives up on a transport error or on null: after
\* such an answer the receipt of the same transaction is still being fetched
\* and main goes on; a receipt completes its future; main exits from the
\* receipts exactly when an answer fails to deserialize, with that error.
C31_FetchReceiptRetries ==
    [][ReceiptAnswered =>
         \E last \in importer'.last_receipt :
            /\ last.response \in {"Err", "null"} =>
                  /\ importer'.receipts[last.index] = "in_flight"
                  /\ importer'.pc = "fetch_receipts"
                  /\ importer'.result = "Running"
            /\ last.response = "receipt" =>
                  /\ importer'.receipts[last.index] = "done"
                  /\ importer'.result = "Running"
            /\ importer'.pc = "exited" <=> last.response = "malformed"
            /\ importer'.pc = "exited" =>
                  importer'.result = "failed to deserialize external receipt"]_vars
\* The receipt of the only transaction of a block arrived at the third request.
C31_Witness ==
    /\ Len(importer.receipts) = 1
    /\ importer.receipts[1] = "done"
    /\ importer.receipt_requests = 3
    /\ importer.last_receipt = {[index |-> 1, response |-> "receipt"]}

\* main returned the error of a deserialization.
DeserializationFailed ==
    importer.result \in {"failed to deserialize external block",
                         "failed to deserialize external receipt"}
\* C32: an answer that fails to deserialize, for a block or for a receipt,
\* ends main with that error and the block is not imported; after it the
\* importer requests, fetches and imports nothing.
C32_DeserializationIsFatal ==
    [][/\ (BlockAnswered /\ importer'.requests[Len(importer'.requests)].response = "malformed") =>
            /\ importer'.pc = "exited"
            /\ importer'.result = "failed to deserialize external block"
            /\ importer'.imported = importer.imported
       /\ (ReceiptAnswered /\ \E last \in importer'.last_receipt : last.response = "malformed") =>
            /\ importer'.pc = "exited"
            /\ importer'.result = "failed to deserialize external receipt"
            /\ importer'.imported = importer.imported
       /\ DeserializationFailed => importer' = importer]_vars
\* After one imported block, a receipt of the next block failed to deserialize.
C32_Witness ==
    /\ importer.result = "failed to deserialize external receipt"
    /\ importer.pc = "exited"
    /\ Len(importer.imported) = 1
    /\ Len(importer.receipts) = 2

\* C33: with the shutdown signal set, the importer at the top of its loop does
\* not go on to fetch a block.
C33_ImporterObservesShutdown ==
    [][(process.shutdown /\ importer.pc = "loop") => importer'.pc # "fetch_block"]_vars

\* The pairs of consecutive requests for the same block whose first answer was
\* null.
NullPolls ==
    {i \in 1..(Len(importer.requests) - 1) :
        /\ importer.requests[i].response = "null"
        /\ importer.requests[i + 1].number = importer.requests[i].number}
\* C35: the importer slept once between every two consecutive null polls.
C35_SleepsBetweenNullPolls == importer.sleeps >= Cardinality(NullPolls)

\* C36: at most RECEIPTS_PARALELLISM receipt fetches are in flight.
C36_BoundedReceiptFetches ==
    Cardinality(InFlight(importer.receipts)) <= RECEIPTS_PARALELLISM
\* RECEIPTS_PARALELLISM fetches are in flight while a receipt of the block is
\* still to be started.
C36_Witness ==
    /\ Len(importer.receipts) > RECEIPTS_PARALELLISM
    /\ Cardinality(InFlight(importer.receipts)) = RECEIPTS_PARALELLISM
    /\ \E i \in DOMAIN importer.receipts : importer.receipts[i] = "queued"

\* C34: with the shutdown signal set, the relayer at the top of its loop
\* returns Ok(()) without calling relay_next_block, and no call of
\* relay_next_block starts, whatever the calls before returned.
C34_RelayerObservesShutdown ==
    [][process.shutdown =>
         /\ process.relayer.pc = "loop" =>
               /\ process'.relayer.pc = "returned"
               /\ process'.relayer.result = "Ok"
               /\ process'.relayer.calls = process.relayer.calls
         /\ process'.relayer.pc = "relaying" =>
               /\ process.relayer.pc = "relaying"
               /\ process'.relayer.calls = process.relayer.calls]_vars
\* The relayer returned Ok after a call of relay_next_block that returned an
\* error.
C34_Witness ==
    /\ process.shutdown
    /\ process.relayer.pc = "returned"
    /\ process.relayer.result = "Ok"
    /\ process.relayer.calls # << >>
    /\ process.relayer.calls[Len(process.relayer.calls)] = "Err"

\* C38: run returns Ok only when both tasks returned Ok; unless a task
\* panicked, run returns only when both tasks have ended, and then with the
\* error of the rpc task first.
C38_RunWaitsForBothTasks ==
    [][(process.run = "Running" /\ process'.run # "Running") =>
         /\ process'.run = "Ok" =>
               process.rpc_task = "Ok" /\ process.importer_task = "Ok"
         /\ process'.run # "JoinError" =>
               "Running" \notin {process.rpc_task, process.importer_task}
         /\ process'.run = "JoinError" <=>
               "Panicked" \in {process.rpc_task, process.importer_task}
         /\ process.rpc_task = "Err" => process'.run \in {"rpc error", "JoinError"}]_vars
\* run returned the error of the rpc task after the importer task, which
\* imported blocks, returned Ok.
C38_Witness ==
    /\ process.run = "rpc error"
    /\ process.rpc_task = "Err"
    /\ process.importer_task = "Ok"
    /\ Len(importer.imported) = MaxImports

\* `stored` has the header and, in order, the transactions of `block`, each
\* with empty execution changes.
SameButChanges(stored, block) ==
    /\ stored.number = block.number
    /\ stored.hash = block.hash
    /\ Len(stored.transactions) = Len(block.transactions)
    /\ \A t \in DOMAIN block.transactions :
          /\ stored.transactions[t].hash = block.transactions[t].hash
          /\ stored.transactions[t].block_number = block.transactions[t].block_number
          /\ stored.transactions[t].logs = block.transactions[t].logs
          /\ stored.transactions[t].changes = << >>
\* Blocks of two transactions, each carrying one change.
TwoTransactionBlocks ==
    {[number |-> n, hash |-> HashOf(n), transactions |-> <<MkTx(n, c1), MkTx(n, c2)>>] :
        n \in BlockNums, c1 \in Changes, c2 \in Changes}
\* C37: after save_block of the embedded backend returned Ok, the block read
\* under the number of the block passed has its header and its transactions
\* in order, with the execution changes of every transaction empty; so has
\* the copy made of any block of two transactions.
C37_StoredBlockHasNoChanges ==
    [][(backend = "rocks" /\ Len(calls') = Len(calls) + 1 /\ calls'[Len(calls')].result = "Ok") =>
         LET block == calls'[Len(calls')].block
         IN /\ state_read_block(state', Number(block.number)) # None
            /\ \A stored \in state_read_block(state', Number(block.number)) :
                  SameButChanges(stored, block)
            /\ \A two \in TwoTransactionBlocks :
                  SameButChanges(block_without_changes(two), two)]_vars
\* A block whose transaction carries a change that modifies a slot was saved
\* and is read without the change.
C37_Witness ==
    /\ backend = "rocks"
    /\ \E i \in OkCalls :
          /\ calls[i].block.transactions[1].changes # << >>
          /\ calls[i].block.transactions[1].logs # << >>
          /\ \E stored \in read_block(Number(calls[i].block.number)) :
                stored.transactions[1].changes = << >>

\* The step is a block number operation of the SQL backend whose query failed.
QueryFailed(op) ==
    /\ backend = "postgres"
    /\ Issued(op)
    /\ issued'[Len(issued')].arg = 1
\* C40: on the SQL backend a failed block number query is not reported:
\* read_mined_block_number returns 0 and increment_block_number returns 1,
\* which is what they return on an empty store.
C40_FailedQueryReadsAsEmpty ==
    [][/\ QueryFailed("read") =>
            /\ issued'[Len(issued')].result = 0
            /\ issued'[Len(issued')].result = pg_read_mined_block_number(EmptyPg, FALSE)
       /\ QueryFailed("increment") =>
            /\ issued'[Len(issued')].result = 1
            /\ issued'[Len(issued')].result = pg_increment_block_number(EmptyPg, FALSE)]_vars
\* With a block stored, the query of read_mined_block_number failed and 0 was
\* returned, then the query of increment_block_number failed and 1 was returned.
C40_Witness ==
    /\ backend = "postgres"
    /\ select_current_block_number(pg) > 0
    /\ Len(issued) >= 2
    /\ issued[Len(issued) - 1].op = "read"
    /\ issued[Len(issued) - 1].arg = 1
    /\ issued[Len(issued) - 1].result = 0
    /\ issued[Len(issued)].op = "increment"
    /\ issued[Len(issued)].arg = 1
    /\ issued[Len(issued)].result = 1

\* C39: on the SQL backend, with a block 0 stored, read_block(Earliest) returns
\* what read_block(Number(0)) returns.
C39_EarliestReadsAsNumberZero ==
    (backend = "postgres" /\ pg_read_block(pg, Number(0)) # None) =>
        /\ pg_read_block_earliest(pg).outcome = "Ok"
        /\ pg_read_block_earliest(pg).block = pg_read_block(pg, Number(0))

====
